---- MODULE Spec2Model ----
(***************************************************************************)
(* LocalFeed: the media index cache (app/services/image_cache.py), the     *)
(* folder routes that change the configured roots (app/routes/folders.py)  *)
(* and the filesystem and clock they read.                                 *)
(*                                                                         *)
(* Spec        one request at a time: every handler is one atomic action,  *)
(*             interleaved with filesystem changes and the clock.          *)
(* SpecThreads requests served by concurrent threads (Flask's threaded     *)
(*             server): every read and write of the module-level caches    *)
(*             and of config.json is a step of its own; the filesystem     *)
(*             and the clock stand still.                                  *)
(* SpecRoutes  the listing routes of app/routes/images.py with their sort  *)
(*             and folder parameters, one request at a time.               *)
(* SpecPaths   normalize_path and is_path_allowed of                       *)
(*             app/services/path_utils.py applied to every short string.   *)
(* SpecKeys    get_thumbnail_path of app/services/optimizations.py applied *)
(*             to every pair of inputs.                                    *)
(* SpecServe   /image, /thumbnail, /video-poster and /api/metadata, one    *)
(*             request at a time, with every argument and If-None-Match.   *)
(* SpecDerive  /thumbnail and /video-poster on concurrent threads, every   *)
(*             access to THUMBNAIL_DIR a step of its own.                  *)
(* SpecOriginal serve_image applied to originals of every size with      *)
(*             every short Range header and every validator.               *)
(* SpecClear   the derivative routes with DELETE /api/cache, any of whose  *)
(*             removals may fail.                                          *)
(* SpecModify  /thumbnail for one image whose mtime, fraction of a second  *)
(*             and size change between the requests.                       *)
(* SpecRebuild get_all_images statement by statement while files are       *)
(*             rewritten, created and removed.                             *)
(* SpecPoster  /video-poster with the ffmpeg process a step of its own;    *)
(* SpecPosterLive adds weak fairness on the handler's steps.               *)
(* SpecMarks   the add and remove requests of /api/favorites and           *)
(*             /api/trash, one at a time.                                  *)
(***************************************************************************)
EXTENDS Integers, Sequences, FiniteSets, TLC

(* ------------------------------ bounds -------------------------------- *)
\* modification times are 1..MaxMtime
MaxMtime == 2
\* the filesystem changes at most MaxFsOps times
MaxFsOps == 2
\* the threads serving requests in SpecThreads
NumThreads == 2
\* the longest path string given to normalize_path and is_path_allowed
MaxPathLen == 4
\* the longest source path a derivative key is computed for
MaxKeyLen == 2
\* the longest range specification of a Range header
MaxRangeLen == 5
\* the largest size of a file that is served in ranges
MaxFileSize == 3

(* ------------------------- program constants -------------------------- *)
CACHE_TTL == 30
\* optimizations.py line 37
CACHE_VERSION == 2
\* config.py line 33: the two settings the routes read
DEFAULT_OPTIMIZATIONS == [thumbnail_cache |-> FALSE, video_poster_cache |-> FALSE]
MAX_VIDEO_SIZE == 78643200
SUPPORTED_FORMATS ==
    {".jpg", ".jpeg", ".png", ".gif", ".webp", ".heic", ".m4v", ".mp4", ".mov"}
VIDEO_FORMATS == {".m4v", ".mp4", ".mov", ".webm"}

\* Python's None and a present value: None is <<>>, a value v is <<v>>
None == <<>>
Some(v) == <<v>>

(* --------------------------- the filesystem --------------------------- *)
\* Directories that may exist; "/a/s" is a subdirectory of "/a".
DirUniverse == {"/a", "/a/s"}
\* os.walk visits a directory before its subdirectories (top-down).
DirOrder == <<"/a", "/a/s">>
ParentDir(d) == IF d = "/a/s" THEN "/a" ELSE "/"

\* A path is kept as (dirname, stem, suffix): os.path.dirname and
\* Path(...).suffix are then field reads.
F1 == [dir |-> "/a",   name |-> "1", suffix |-> ".JPG"]
F2 == [dir |-> "/a/s", name |-> "2", suffix |-> ".mp4"]
F3 == [dir |-> "/a",   name |-> "3", suffix |-> ".webm"]
FileUniverse == {F1, F2, F3}
\* the files that are written and deleted; F3 is there from the start and
\* goes only with its directory
Mutable == {F1, F2}
\* the order in which a directory lists its entries
FileOrder == <<F1, F3, F2>>

\* str.lower() on the suffixes of the universe
Lower(s) == IF s = ".JPG" THEN ".jpg" ELSE s

\* sizes a file may have: the video is at the limit or one byte over it,
\* every other file is over the limit
SizeChoices(f) ==
    IF f.suffix = ".mp4" THEN {MAX_VIDEO_SIZE, MAX_VIDEO_SIZE + 1}
    ELSE {MAX_VIDEO_SIZE + 1}

Mtimes == 1..MaxMtime
NoFile == [exists |-> FALSE, mtime |-> 0, size |-> 0]
NoDir == [exists |-> FALSE, mtime |-> 0]

\* time.time() is seconds since the epoch: the process starts more than
\* CACHE_TTL after it, so a cleared timestamp of 0 is always expired
Boot == CACHE_TTL + 1
\* the values the clock takes: ages 0, 1, CACHE_TTL and CACHE_TTL + 1 occur
TimePoints == {Boot, Boot + CACHE_TTL, Boot + CACHE_TTL + 1}

VARIABLES
    dirStat,            \* directory -> [exists, mtime]
    fileStat,           \* file -> [exists, mtime, size]
    fsOps,              \* how many times the filesystem has changed
    now,                \* time.time()
    folders,            \* config.json: config['folders']
    image_cache,        \* _image_cache: [images, timestamp, folder_mtimes]
    leaf_folders_cache, \* _leaf_folders_cache
    captured,           \* history: the configured roots, their high-watermarks and
                        \*          the time when the snapshot in the cache was built
    last,               \* history: the step taken last, what it saw and answered
    ret,                \* history: what get_all_images() returned last, if the
                        \*          filesystem and the roots are unchanged since
    pc,                 \* SpecThreads: thread -> the statement it is at
    loc,                \* SpecThreads: thread -> its request and local variables
    tag,                \* history: the thread whose rescan wrote each field of
                        \*          _image_cache, 0 for a cleared field
    optimizations,      \* config.json: the optimization settings
    call,               \* SpecPaths, SpecKeys: the function applied last, its
                        \*          arguments and its results
    thumbs,             \* THUMBNAIL_DIR: cache path -> the file at that path
    thumbdir,           \* whether the directory THUMBNAIL_DIR exists
    cleared,            \* the response of the last DELETE /api/cache
    subsec,             \* file -> the tenths of a second of its st_mtime, of
                        \*          which fileStat holds the whole seconds
    below,              \* history: a file changed during the rescan under way
                        \*          or the last one, after its root was walked,
                        \*          and left the root's high-watermark at or
                        \*          below the one the rescan recorded
    decoder,            \* the ffmpeg process create_video_poster waits for:
                        \*          "none", or how it is going to end
    favorites,          \* favorites.json: the list of favorite paths
    trash,              \* trash.json: the list of paths marked for deletion
    req                 \* SpecServe: thread -> its media request and the
                        \*          response it gave

vars == <<dirStat, fileStat, fsOps, now, folders, image_cache, leaf_folders_cache,
          captured, last, ret, pc, loc, tag, optimizations, call, thumbs, thumbdir,
          cleared, subsec, below, decoder, favorites, trash, req>>
listVars == <<favorites, trash>>
extraVars == <<below, decoder, listVars>>
adminVars == <<cleared, subsec, extraVars>>
serveVars == <<optimizations, call, thumbs, thumbdir, req, adminVars>>
threadVars == <<pc, loc, tag>>
seqVars == <<fsOps, captured, last, ret>>
Threads == 1..NumThreads

(* ------------------------------ helpers ------------------------------- *)
SetMax(S) == CHOOSE x \in S : \A y \in S : y <= x
Range(s) == {s[i] : i \in 1..Len(s)}

RECURSIVE InSubtree(_, _)
InSubtree(d, top) ==
    IF d = top THEN TRUE
    ELSE IF d = "/" THEN FALSE
    ELSE InSubtree(ParentDir(d), top)

\* os.path.isdir
IsDir(d) == d \in DirUniverse /\ dirStat[d].exists

\* os.path.getmtime on a file of the universe
GetMtime(f) == fileStat[f].mtime

\* the directories os.walk(top) yields, in order
WalkDirs(top) ==
    SelectSeq(DirOrder, LAMBDA d : InSubtree(d, top) /\ dirStat[d].exists)

\* the files os.walk lists in directory d
FilesIn(d) ==
    SelectSeq(FileOrder, LAMBDA f : f.dir = d /\ fileStat[f].exists)

\* faulty variant: the walk over the files (lines 53-59) is left out
get_folder_mtime_DirsOnly(folder_path) ==
    IF ~IsDir(folder_path) THEN 0
    ELSE SetMax({dirStat[folder_path].mtime}
                \cup {dirStat[d].mtime :
                        d \in {x \in DirUniverse :
                                 dirStat[x].exists /\ InSubtree(x, folder_path)}})

\* get_folder_mtime: 0 when not a directory, else the maximum of the
\* folder's own mtime and that of every directory and file below it
get_folder_mtime(folder_path) ==
    IF ~IsDir(folder_path) THEN 0
    ELSE SetMax({dirStat[folder_path].mtime}
                \cup {dirStat[d].mtime :
                        d \in {x \in DirUniverse :
                                 dirStat[x].exists /\ InSubtree(x, folder_path)}}
                \cup {fileStat[f].mtime :
                        f \in {x \in FileUniverse :
                                 fileStat[x].exists /\ InSubtree(x.dir, folder_path)}})

(* ------------------------- image_cache.py ----------------------------- *)
\* faulty variant: a video of exactly MAX_VIDEO_SIZE is skipped too
Listed_AtLimitSkipped(f) ==
    /\ Lower(f.suffix) \in SUPPORTED_FORMATS
    /\ ~(Lower(f.suffix) \in VIDEO_FORMATS /\ fileStat[f].size >= MAX_VIDEO_SIZE)

\* lines 133-142: whether the walk appends this file
Listed(f) ==
    /\ Lower(f.suffix) \in SUPPORTED_FORMATS
    /\ ~(Lower(f.suffix) \in VIDEO_FORMATS /\ fileStat[f].size > MAX_VIDEO_SIZE)

RECURSIVE Flatten(_)
Flatten(ss) == IF ss = <<>> THEN <<>> ELSE Head(ss) \o Flatten(Tail(ss))

\* lines 131-142 for one root
WalkRoot(top) ==
    LET ds == WalkDirs(top)
    IN  Flatten([i \in 1..Len(ds) |-> SelectSeq(FilesIn(ds[i]), Listed)])

\* lines 125-142: the unsorted list over the configured roots
WalkAll(cfg) ==
    Flatten([i \in 1..Len(cfg) |->
                IF IsDir(cfg[i]) THEN WalkRoot(cfg[i]) ELSE <<>>])

\* lines 127-129: folder_mtimes has a key for each root that is a directory
ScanMtimes(cfg) ==
    [r \in {x \in Range(cfg) : IsDir(x)} |-> get_folder_mtime(r)]

\* faulty variant: the list is left in the order of the walk
SortNewestFirst_WalkOrder(s) == s

\* list.sort(key=getmtime, reverse=True): stable, descending
RECURSIVE InsertDesc(_, _)
InsertDesc(x, s) ==
    IF s = <<>> THEN <<x>>
    ELSE IF GetMtime(Head(s)) >= GetMtime(x)
         THEN <<Head(s)>> \o InsertDesc(x, Tail(s))
         ELSE <<x>> \o s

RECURSIVE SortNewestFirst(_)
SortNewestFirst(s) ==
    IF s = <<>> THEN <<>>
    ELSE InsertDesc(s[Len(s)], SortNewestFirst(SubSeq(s, 1, Len(s) - 1)))

\* faulty variant: the operands of the subtraction are swapped
TtlExpired_Swapped(t, stamp) == stamp - t > CACHE_TTL

\* _is_cache_valid, line 77
TtlExpired(t, stamp) == t - stamp > CACHE_TTL

\* _is_cache_valid, line 84
RootsChanged(cfg, cached_mtimes) == Range(cfg) # DOMAIN cached_mtimes

\* _is_cache_valid, lines 88-92
RootModified(cfg, cached_mtimes) ==
    \E i \in 1..Len(cfg) :
        get_folder_mtime(cfg[i]) >
            (IF cfg[i] \in DOMAIN cached_mtimes THEN cached_mtimes[cfg[i]] ELSE 0)

\* faulty variant: the TTL check (lines 76-78) is left out
_is_cache_valid_NoTtl(cfg) ==
    /\ image_cache.images # None
    /\ ~RootsChanged(cfg, image_cache.folder_mtimes)
    /\ ~RootModified(cfg, image_cache.folder_mtimes)

\* _is_cache_valid, lines 64-94
_is_cache_valid(cfg) ==
    /\ image_cache.images # None
    /\ ~TtlExpired(now, image_cache.timestamp)
    /\ ~RootsChanged(cfg, image_cache.folder_mtimes)
    /\ ~RootModified(cfg, image_cache.folder_mtimes)

\* lines 122-150: the snapshot a rescan installs
Rebuilt(cfg) ==
    [images |-> Some(SortNewestFirst(WalkAll(cfg))),
     timestamp |-> now,
     folder_mtimes |-> ScanMtimes(cfg)]

\* invalidate_cache, lines 100-102: the cleared cache
NoMtimes == [r \in {} |-> 0]
Cleared == [images |-> None, timestamp |-> 0, folder_mtimes |-> NoMtimes]

\* faulty variant: _leaf_folders_cache (line 103) is not reset
invalidate_cache_KeepsFolders ==
    /\ image_cache' = Cleared
    /\ UNCHANGED leaf_folders_cache

\* invalidate_cache, lines 97-103
invalidate_cache ==
    /\ image_cache' = Cleared
    /\ leaf_folders_cache' = <<>>

Reverse(s) == [i \in 1..Len(s) |-> s[Len(s) + 1 - i]]

\* faulty variant: a cache hit reverses the cached list in place
get_all_images_HitReverses(valid, cfg) ==
    IF valid
    THEN [image_cache EXCEPT !.images = Some(Reverse(image_cache.images[1]))]
    ELSE Rebuilt(cfg)

\* get_all_images, lines 118-152: the cache after the call (the call returns
\* its images); valid is what _is_cache_valid answered
get_all_images(valid, cfg) == IF valid THEN image_cache ELSE Rebuilt(cfg)

\* history: what a build under cfg captures
CaptureOf(cfg) ==
    [roots |-> Range(cfg),
     hw |-> [r \in Range(cfg) |-> get_folder_mtime(r)],
     time |-> now,
     mt |-> [f \in FileUniverse |-> IF fileStat[f].exists THEN GetMtime(f) ELSE 0]]
NoCapture ==
    [roots |-> {}, hw |-> NoMtimes, time |-> 0, mt |-> [f \in FileUniverse |-> 0]]

(* ------------------------------ state --------------------------------- *)
\* a thread's request and locals: op and arg are the request; cfg is
\* `config`/`folders`, cached is `cached_mtimes`, images and mtimes are the
\* `images` and `folder_mtimes` of a rescan, result is what the call returns.
\* A local is reset once the code no longer reads it.
\* History: hit (the cache answered), seen (the tags of the fields read),
\* quiet (no add_folder/remove_folder ran since the request started).
NoSeen == [images |-> 0, timestamp |-> 0, folder_mtimes |-> 0]
\* status 0: no response yet; checked: the roots the Path Guard loaded;
\* touched: what the handler did with the file at the requested path
NoTarget == [dir |-> "", name |-> <<>>, ext |-> ""]
\* a source state: st_mtime with its fraction, and st_size
NoSource == [mtime |-> 0, subsec |-> 0, size |-> 0]
\* src, inm_src, sent_src (history): the state of the source when the handler
\* looked at it, when the ETag that came as If-None-Match was issued, and when
\* the derivative that was sent was generated
NoServe ==
    [route |-> "none", asked |-> "none", arg |-> <<>>, inm |-> <<>>,
     flag |-> "unread", path |-> <<>>, checked |-> <<>>, touched |-> {},
     target |-> NoTarget, status |-> 0, body |-> "", cache_control |-> "",
     etag |-> <<>>, src |-> NoSource, inm_src |-> NoSource,
     sent_src |-> NoSource]
\* no DELETE /api/cache yet
NoReport == [deleted_count |-> 0, errors |-> {}]
\* an empty THUMBNAIL_DIR
NoThumbs == [c \in {} |-> 0]
NoRequest ==
    [op |-> "none", arg |-> "", cfg |-> <<>>, cached |-> NoMtimes,
     images |-> <<>>, mtimes |-> NoMtimes, result |-> None,
     hit |-> FALSE, seen |-> NoSeen, quiet |-> FALSE]

Init ==
    /\ dirStat = [d \in DirUniverse |-> [exists |-> TRUE, mtime |-> 1]]
    /\ fileStat = [f \in FileUniverse |->
                     [exists |-> TRUE,
                      mtime |-> IF f = F3 THEN 2 ELSE 1,
                      size |-> MAX_VIDEO_SIZE + 1]]
    /\ fsOps = 0
    /\ now = Boot
    /\ folders = <<>>
    /\ image_cache = Cleared
    /\ leaf_folders_cache = <<>>
    /\ captured = NoCapture
    /\ last = [op |-> "none"]
    /\ ret = None
    /\ pc = [t \in Threads |-> "idle"]
    /\ loc = [t \in Threads |-> NoRequest]
    /\ tag = [images |-> 0, timestamp |-> 0, folder_mtimes |-> 0]
    /\ optimizations = DEFAULT_OPTIMIZATIONS
    /\ call = [fn |-> "none"]
    /\ thumbs = NoThumbs
    /\ thumbdir = FALSE
    /\ cleared = NoReport
    /\ subsec = [f \in FileUniverse |-> 0]
    /\ below = FALSE
    /\ decoder = "none"
    /\ favorites = <<>>
    /\ trash = <<>>
    /\ req = [t \in Threads |-> NoServe]

(* ------------------------- the environment ---------------------------- *)
Env == [op |-> "env"]

\* history: f is below a configured root and m exceeds the high-watermark
\* captured for that root
AboveWatermark(f, m) ==
    /\ image_cache.images # None
    /\ \E r \in Range(folders) :
          /\ InSubtree(f.dir, r)
          /\ r \in captured.roots
          /\ m > captured.hw[r]

\* a file is created or rewritten, with any mtime (utime) and size
WriteFile(f, m, sz) ==
    /\ fsOps < MaxFsOps /\ fsOps' = fsOps + 1
    /\ IsDir(f.dir)
    /\ fileStat[f] # [exists |-> TRUE, mtime |-> m, size |-> sz]
    /\ fileStat' = [fileStat EXCEPT ![f] = [exists |-> TRUE, mtime |-> m, size |-> sz]]
    /\ last' = [op |-> "write", file |-> f,
                created |-> ~fileStat[f].exists,
                raised |-> fileStat[f].exists /\ m > fileStat[f].mtime,
                under |-> \E r \in Range(folders) : InSubtree(f.dir, r),
                above |-> AboveWatermark(f, m),
                invalidated |-> last.op \in {"add", "remove"}]
    /\ ret' = None
    /\ UNCHANGED <<dirStat, now, folders, image_cache, leaf_folders_cache, captured>>
    /\ UNCHANGED <<threadVars, serveVars>>

DeleteFile(f) ==
    /\ fsOps < MaxFsOps /\ fsOps' = fsOps + 1
    /\ fileStat[f].exists
    /\ fileStat' = [fileStat EXCEPT ![f] = NoFile]
    /\ last' = Env /\ ret' = None
    /\ UNCHANGED <<dirStat, now, folders, image_cache, leaf_folders_cache, captured>>
    /\ UNCHANGED <<threadVars, serveVars>>

\* a directory's own mtime changes
TouchDir(d, m) ==
    /\ fsOps < MaxFsOps /\ fsOps' = fsOps + 1
    /\ IsDir(d)
    /\ dirStat[d].mtime # m
    /\ dirStat' = [dirStat EXCEPT ![d].mtime = m]
    /\ last' = Env /\ ret' = None
    /\ UNCHANGED <<fileStat, now, folders, image_cache, leaf_folders_cache, captured>>
    /\ UNCHANGED <<threadVars, serveVars>>

\* a directory is removed with everything below it
RemoveDir(d) ==
    /\ fsOps < MaxFsOps /\ fsOps' = fsOps + 1
    /\ IsDir(d)
    /\ dirStat' = [x \in DirUniverse |->
                     IF InSubtree(x, d) THEN NoDir ELSE dirStat[x]]
    /\ fileStat' = [f \in FileUniverse |->
                      IF InSubtree(f.dir, d) THEN NoFile ELSE fileStat[f]]
    /\ last' = Env /\ ret' = None
    /\ UNCHANGED <<now, folders, image_cache, leaf_folders_cache, captured>>
    /\ UNCHANGED <<threadVars, serveVars>>

MakeDir(d, m) ==
    /\ fsOps < MaxFsOps /\ fsOps' = fsOps + 1
    /\ ~IsDir(d)
    /\ ParentDir(d) = "/" \/ IsDir(ParentDir(d))
    /\ dirStat' = [dirStat EXCEPT ![d] = [exists |-> TRUE, mtime |-> m]]
    /\ last' = Env /\ ret' = None
    /\ UNCHANGED <<fileStat, now, folders, image_cache, leaf_folders_cache, captured>>
    /\ UNCHANGED <<threadVars, serveVars>>

\* the clock advances
Tick ==
    /\ \E t \in TimePoints : t > now /\ now' = t
    /\ last' = [op |-> "tick"]
    /\ UNCHANGED <<dirStat, fileStat, fsOps, folders, image_cache,
                   leaf_folders_cache, captured, ret>>
    /\ UNCHANGED <<threadVars, serveVars>>

(* --------------------------- path_utils.py ---------------------------- *)
\* A path string is the sequence of its characters.
PathChars == {"/", ".", "~", "a", "s"}
PathStrings == UNION {[1..k -> PathChars] : k \in 0..MaxPathLen}
\* the configured roots as strings
Chars(d) ==
    IF d = "/a/s" THEN <<"/", "a", "/", "s">>
    ELSE IF d = "/as" THEN <<"/", "a", "s">>
    ELSE <<"/", "a">>
\* os.environ['HOME']
HOME == <<"/", "h">>

\* str.startswith
StartsWith(p, q) == Len(q) <= Len(p) /\ SubSeq(p, 1, Len(q)) = q

\* str.find('/', 1): the position of the first "/" after the first character,
\* one past the end when there is none
FindSlash(p) ==
    LET at == {i \in 2..Len(p) : p[i] = "/"}
    IN  IF at = {} THEN Len(p) + 1 ELSE CHOOSE i \in at : \A j \in at : i <= j

\* expand_path, line 40: os.path.expanduser. "~" and "~/..." take HOME;
\* "~name" is looked up in the password database, which has no such user
expand_path(p) ==
    IF p = <<>> \/ p[1] # "~" THEN p
    ELSE IF FindSlash(p) = 2 THEN HOME \o SubSeq(p, 2, Len(p))
    ELSE p

\* str.split('/')
RECURSIVE Split(_)
Split(p) ==
    IF \A i \in 1..Len(p) : p[i] # "/" THEN <<p>>
    ELSE LET k == CHOOSE i \in 1..Len(p) :
                      p[i] = "/" /\ \A j \in 1..(i - 1) : p[j] # "/"
         IN  <<SubSeq(p, 1, k - 1)>> \o Split(SubSeq(p, k + 1, Len(p)))

\* '/'.join
RECURSIVE Join(_)
Join(comps) ==
    IF comps = <<>> THEN <<>>
    ELSE IF Len(comps) = 1 THEN comps[1]
    ELSE comps[1] \o <<"/">> \o Join(Tail(comps))

\* posixpath.normpath: how many leading slashes are kept
InitialSlashes(p) ==
    IF ~StartsWith(p, <<"/">>) THEN 0
    ELSE IF StartsWith(p, <<"/", "/">>) /\ ~StartsWith(p, <<"/", "/", "/">>) THEN 2
    ELSE 1

\* posixpath.normpath: the loop over the components
RECURSIVE Collapse(_, _, _)
Collapse(comps, new_comps, slashes) ==
    IF comps = <<>> THEN new_comps
    ELSE LET comp == Head(comps)
             n == Len(new_comps)
         IN  IF comp = <<>> \/ comp = <<".">>
             THEN Collapse(Tail(comps), new_comps, slashes)
             ELSE IF \/ comp # <<".", ".">>
                     \/ (slashes = 0 /\ n = 0)
                     \/ (n > 0 /\ new_comps[n] = <<".", ".">>)
             THEN Collapse(Tail(comps), Append(new_comps, comp), slashes)
             ELSE IF n > 0
             THEN Collapse(Tail(comps), SubSeq(new_comps, 1, n - 1), slashes)
             ELSE Collapse(Tail(comps), new_comps, slashes)

\* posixpath.normpath
normpath(p) ==
    IF p = <<>> THEN <<".">>
    ELSE LET slashes == InitialSlashes(p)
             joined == [i \in 1..slashes |-> "/"] \o
                       Join(Collapse(Split(p), <<>>, slashes))
         IN  IF joined = <<>> THEN <<".">> ELSE joined

\* normalize_path, line 52
normalize_path(p) == normpath(expand_path(p))

\* faulty variant: a root matches only whole path segments
is_path_allowed_Contained(p) ==
    \E i \in 1..Len(folders) :
        LET root == normalize_path(Chars(folders[i]))
        IN  p = root \/ StartsWith(p, root \o <<"/">>)

\* is_path_allowed, lines 64-69
is_path_allowed(p) ==
    \E i \in 1..Len(folders) : StartsWith(p, normalize_path(Chars(folders[i])))

(* --------------------------- the requests ----------------------------- *)
\* history: what a get_all_images() call found and answered
ListRecord(valid, cacheAfter) ==
    [op |-> "list",
     hit |-> valid,
     val |-> cacheAfter.images[1],
     had |-> image_cache.images # None,
     age |-> now - captured.time,
     prev |-> ret,
     after |-> IF last.op = "write" THEN last ELSE Env]

\* GET /api/images, /api/image-count: get_all_images()
GetAllImagesReq ==
    LET valid == _is_cache_valid(folders)
    IN  /\ image_cache' = get_all_images(valid, folders)
        /\ captured' = IF valid THEN captured ELSE CaptureOf(folders)
        /\ ret' = image_cache'.images
        /\ last' = ListRecord(valid, image_cache')
        /\ UNCHANGED <<dirStat, fileStat, fsOps, now, folders, leaf_folders_cache>>
        /\ UNCHANGED <<threadVars, serveVars>>

\* the values of the sort parameter, and of the folder parameter
SortValues == {"newest", "oldest", "random"}
FolderArgs ==
    {<<>>, <<"/", "a">>, <<"/", "a", "/">>, <<"/", "a", "/", "s">>,
     <<"/", "a", "s">>, <<"/", "s">>}

\* os.path.join(root, file): the path string of a listed file
FilePath(f) == Chars(f.dir) \o <<"/", f.name, f.suffix>>

\* os.path.dirname
dirname(p) ==
    LET at == {i \in 1..Len(p) : p[i] = "/"}
        head == IF at = {} THEN <<>> ELSE SubSeq(p, 1, SetMax(at))
        keep == {i \in 1..Len(head) : head[i] # "/"}
    IN  IF keep = {} THEN head ELSE SubSeq(head, 1, SetMax(keep))

\* urllib.parse.quote(image_path, safe=""): "/" is escaped, letters, digits,
\* "." and "~" are not
quote(p) == [i \in 1..Len(p) |-> IF p[i] = "/" THEN "%2F" ELSE p[i]]

\* format_image_url, path_utils.py lines 109-113
format_image_url(f) ==
    [endpoint |-> IF optimizations.thumbnail_cache THEN "/thumbnail?path="
                  ELSE "/image?path=",
     path |-> quote(FilePath(f))]

\* faulty variant: the sort parameter is ignored
Ordered_Ignored(images, sort) == images

\* get_images lines 45-47, get_images_by_folder_route lines 74-76
Ordered(images, sort) == IF sort = "oldest" THEN Reverse(images) ELSE images

\* lines 50 and 79: the URLs of the response
Urls(images) == [i \in 1..Len(images) |-> format_image_url(images[i])]

\* faulty variant: the files below the folder, at any depth
get_images_by_folder_Below(images, folder_path) ==
    SelectSeq(images, LAMBDA f : StartsWith(dirname(FilePath(f)), folder_path))

\* get_images_by_folder, image_cache.py line 165
get_images_by_folder(images, folder_path) ==
    SelectSeq(images, LAMBDA f : dirname(FilePath(f)) = folder_path)

\* GET /api/images
GetImagesReq(sort) ==
    LET valid == _is_cache_valid(folders)
    IN  /\ image_cache' = get_all_images(valid, folders)
        /\ captured' = IF valid THEN captured ELSE CaptureOf(folders)
        /\ ret' = image_cache'.images
        /\ last' = [op |-> "images", sort |-> sort,
                    val |-> image_cache'.images[1],
                    resp |-> Urls(Ordered(image_cache'.images[1], sort))]
        /\ UNCHANGED <<dirStat, fileStat, fsOps, now, folders, leaf_folders_cache>>
        /\ UNCHANGED <<threadVars, serveVars>>

\* GET /api/images/folder
GetImagesByFolderReq(arg, sort) ==
    LET folder_path == normalize_path(arg)
        valid == _is_cache_valid(folders)
        denied == arg = <<>> \/ ~is_path_allowed(folder_path)
        items == get_images_by_folder(image_cache'.images[1], folder_path)
    IN  /\ image_cache' = IF denied THEN image_cache
                          ELSE get_all_images(valid, folders)
        /\ captured' = IF denied \/ valid THEN captured ELSE CaptureOf(folders)
        /\ ret' = IF denied THEN ret ELSE image_cache'.images
        /\ last' = IF arg = <<>> THEN [op |-> "by_folder", status |-> 400]
                   ELSE IF denied THEN [op |-> "by_folder", status |-> 403]
                   ELSE [op |-> "by_folder", status |-> 200,
                         folder |-> folder_path, sort |-> sort,
                         val |-> image_cache'.images[1],
                         items |-> items,
                         resp |-> Urls(Ordered(items, sort))]
        /\ UNCHANGED <<dirStat, fileStat, fsOps, now, folders, leaf_folders_cache>>
        /\ UNCHANGED <<threadVars, serveVars>>

\* get_leaf_folders, lines 188-193: the folders in order of first appearance
RECURSIVE FolderKeys(_)
FolderKeys(images) ==
    IF images = <<>> THEN <<>>
    ELSE LET front == FolderKeys(SubSeq(images, 1, Len(images) - 1))
             d == images[Len(images)].dir
         IN  IF d \in Range(front) THEN front ELSE Append(front, d)

\* line 206-207: the last component of the folder path
BaseName(d) == IF d = "/a/s" THEN "s" ELSE "a"

\* faulty variant: a file listed twice is counted once
FolderAggregates_CountsOnce(images) ==
    LET keys == FolderKeys(images)
        In(d) == {i \in 1..Len(images) : images[i].dir = d}
        Live(d) == {GetMtime(images[i]) : i \in {j \in In(d) : fileStat[images[j]].exists}}
    IN  [k \in 1..Len(keys) |->
            [path |-> keys[k],
             name |-> BaseName(keys[k]),
             count |-> Cardinality({images[i] : i \in In(keys[k])}),
             newest_mtime |-> SetMax(Live(keys[k]) \cup {0})]]

\* get_leaf_folders, lines 188-214
FolderAggregates(images) ==
    LET keys == FolderKeys(images)
        In(d) == {i \in 1..Len(images) : images[i].dir = d}
        Live(d) == {GetMtime(images[i]) : i \in {j \in In(d) : fileStat[images[j]].exists}}
    IN  [k \in 1..Len(keys) |->
            [path |-> keys[k],
             name |-> BaseName(keys[k]),
             count |-> Cardinality(In(keys[k])),
             newest_mtime |-> SetMax(Live(keys[k]) \cup {0})]]

\* GET /api/folders/leaf: get_leaf_folders()
GetLeafFoldersReq ==
    IF leaf_folders_cache # <<>>
    THEN /\ last' = [op |-> "leaf", hit |-> TRUE, val |-> leaf_folders_cache]
         /\ UNCHANGED <<dirStat, fileStat, fsOps, now, folders, image_cache,
                        leaf_folders_cache, captured, ret, pc, loc, tag, serveVars>>
    ELSE /\ image_cache' = get_all_images(_is_cache_valid(folders), folders)
         /\ captured' = IF _is_cache_valid(folders) THEN captured
                        ELSE CaptureOf(folders)
         /\ ret' = image_cache'.images
         /\ leaf_folders_cache' = FolderAggregates(image_cache'.images[1])
         /\ last' = [op |-> "leaf", hit |-> FALSE, val |-> leaf_folders_cache']
         /\ UNCHANGED <<dirStat, fileStat, fsOps, now, folders, pc, loc, tag, serveVars>>

\* list.remove: the first occurrence
RECURSIVE RemoveFirst(_, _)
RemoveFirst(s, x) ==
    IF s = <<>> THEN <<>>
    ELSE IF Head(s) = x THEN Tail(s)
    ELSE <<Head(s)>> \o RemoveFirst(Tail(s), x)

\* POST /api/folders: add_folder
AddFolderReq(path) ==
    IF ~IsDir(path) \/ path \in Range(folders)
    THEN /\ last' = [op |-> "add_rejected"]
         /\ UNCHANGED <<dirStat, fileStat, fsOps, now, folders, image_cache,
                        leaf_folders_cache, captured, ret, pc, loc, tag, serveVars>>
    ELSE /\ folders' = Append(folders, path)
         /\ invalidate_cache
         /\ captured' = NoCapture
         /\ last' = [op |-> "add"]
         /\ ret' = None
         /\ UNCHANGED <<dirStat, fileStat, fsOps, now, pc, loc, tag, serveVars>>

\* DELETE /api/folders: remove_folder
RemoveFolderReq(path) ==
    IF path \in Range(folders)
    THEN /\ folders' = RemoveFirst(folders, path)
         /\ invalidate_cache
         /\ captured' = NoCapture
         /\ last' = [op |-> "remove"]
         /\ ret' = None
         /\ UNCHANGED <<dirStat, fileStat, fsOps, now, pc, loc, tag, serveVars>>
    ELSE /\ last' = [op |-> "remove_unknown"]
         /\ UNCHANGED <<dirStat, fileStat, fsOps, now, folders, image_cache,
                        leaf_folders_cache, captured, ret, pc, loc, tag, serveVars>>

Next ==
    \/ \E f \in Mutable, m \in Mtimes :
          \E sz \in SizeChoices(f) : WriteFile(f, m, sz)
    \/ \E f \in Mutable : DeleteFile(f)
    \/ \E d \in DirUniverse, m \in Mtimes : TouchDir(d, m)
    \/ \E d \in DirUniverse : RemoveDir(d)
    \/ \E d \in DirUniverse, m \in Mtimes : MakeDir(d, m)
    \/ Tick
    \/ GetAllImagesReq
    \/ GetLeafFoldersReq
    \/ \E p \in DirUniverse : AddFolderReq(p)
    \/ \E p \in DirUniverse : RemoveFolderReq(p)

Spec == Init /\ [][Next]_vars

\* the listing routes with their parameters, one request at a time, while
\* files and roots change
NextRoutes ==
    \/ \E f \in Mutable, m \in Mtimes :
          \E sz \in SizeChoices(f) : WriteFile(f, m, sz)
    \/ \E f \in Mutable : DeleteFile(f)
    \/ \E sort \in SortValues : GetImagesReq(sort)
    \/ \E arg \in FolderArgs, sort \in SortValues : GetImagesByFolderReq(arg, sort)
    \/ \E p \in DirUniverse : AddFolderReq(p)
    \/ \E p \in DirUniverse : RemoveFolderReq(p)

SpecRoutes == Init /\ [][NextRoutes]_vars

(* ------------------- the requests, statement by statement ------------- *)
\* The handlers run on the threads of Flask's threaded server and share the
\* module-level _image_cache and _leaf_folders_cache and config.json without
\* any lock. Every step below is one read or one write of that shared state.
ListingOps == {"list", "leaf"}
ChangeOps == {"add", "remove"}
At(t, label) == pc[t] = label
Goto(t, label) == pc' = [pc EXCEPT ![t] = label]
fsVars == <<dirStat, fileStat, now>>
\* where get_all_images() returns to
Return(t) == IF loc[t].op = "leaf" THEN "l_compute" ELSE "done"
NoChangeInFlight == \A u \in Threads : loc[u].op \notin ChangeOps

\* a request arrives at an idle thread
Start(t, op, arg) ==
    /\ At(t, "idle")
    /\ Goto(t, CASE op = "list" -> "g_load"
                 [] op = "leaf" -> "l_check"
                 [] op = "add" -> "a_load"
                 [] op = "remove" -> "r_load")
    /\ loc' = [u \in Threads |->
                 IF u = t
                 THEN [NoRequest EXCEPT !.op = op, !.arg = arg,
                                        !.quiet = op \in ListingOps /\ NoChangeInFlight]
                 ELSE IF op \in ChangeOps THEN [loc[u] EXCEPT !.quiet = FALSE]
                 ELSE loc[u]]
    /\ UNCHANGED <<fsVars, folders, image_cache, leaf_folders_cache, tag, seqVars, serveVars>>

\* get_all_images, line 115: config = load_config()
g_load(t) ==
    /\ At(t, "g_load")
    /\ loc' = [loc EXCEPT ![t].cfg = folders]
    /\ Goto(t, "v_images")
    /\ UNCHANGED <<fsVars, folders, image_cache, leaf_folders_cache, tag, seqVars, serveVars>>

\* _is_cache_valid, lines 73-74: if _image_cache['images'] is None
v_images(t) ==
    /\ At(t, "v_images")
    /\ Goto(t, IF image_cache.images = None THEN "scan" ELSE "v_ttl")
    /\ UNCHANGED <<fsVars, folders, image_cache, leaf_folders_cache, loc, tag, seqVars, serveVars>>

\* _is_cache_valid, lines 77-78: the TTL test reads _image_cache['timestamp']
v_ttl(t) ==
    /\ At(t, "v_ttl")
    /\ IF TtlExpired(now, image_cache.timestamp)
       THEN /\ Goto(t, "scan")
            /\ UNCHANGED loc
       ELSE /\ Goto(t, "v_roots")
            /\ loc' = [loc EXCEPT ![t].seen.timestamp = tag.timestamp]
    /\ UNCHANGED <<fsVars, folders, image_cache, leaf_folders_cache, tag, seqVars, serveVars>>

\* _is_cache_valid, lines 81-85: cached_mtimes = _image_cache['folder_mtimes']
v_roots(t) ==
    /\ At(t, "v_roots")
    /\ IF RootsChanged(loc[t].cfg, image_cache.folder_mtimes)
       THEN /\ Goto(t, "scan")
            /\ loc' = [loc EXCEPT ![t].seen = NoSeen]
       ELSE /\ Goto(t, "v_mtimes")
            /\ loc' = [loc EXCEPT ![t].cached = image_cache.folder_mtimes,
                                  ![t].seen.folder_mtimes = tag.folder_mtimes]
    /\ UNCHANGED <<fsVars, folders, image_cache, leaf_folders_cache, tag, seqVars, serveVars>>

\* _is_cache_valid, lines 88-94: the high-watermark of every root
v_mtimes(t) ==
    /\ At(t, "v_mtimes")
    /\ IF RootModified(loc[t].cfg, loc[t].cached)
       THEN /\ Goto(t, "scan")
            /\ loc' = [loc EXCEPT ![t].cached = NoMtimes, ![t].seen = NoSeen]
       ELSE /\ Goto(t, "hit")
            /\ loc' = [loc EXCEPT ![t].cached = NoMtimes, ![t].cfg = <<>>]
    /\ UNCHANGED <<fsVars, folders, image_cache, leaf_folders_cache, tag, seqVars, serveVars>>

\* get_all_images, line 119: return _image_cache['images'], read once more
hit(t) ==
    /\ At(t, "hit")
    /\ loc' = [loc EXCEPT ![t].result = image_cache.images,
                          ![t].hit = TRUE,
                          ![t].seen.images = tag.images]
    /\ Goto(t, Return(t))
    /\ UNCHANGED <<fsVars, folders, image_cache, leaf_folders_cache, tag, seqVars, serveVars>>

\* get_all_images, lines 122-145: the rescan into the locals
scan(t) ==
    /\ At(t, "scan")
    /\ loc' = [loc EXCEPT ![t].images = SortNewestFirst(WalkAll(loc[t].cfg)),
                          ![t].mtimes = ScanMtimes(loc[t].cfg),
                          ![t].cfg = <<>>]
    /\ Goto(t, "w_images")
    /\ UNCHANGED <<fsVars, folders, image_cache, leaf_folders_cache, tag, seqVars, serveVars>>

\* line 148: _image_cache['images'] = images
w_images(t) ==
    /\ At(t, "w_images")
    /\ image_cache' = [image_cache EXCEPT !.images = Some(loc[t].images)]
    /\ tag' = [tag EXCEPT !.images = t]
    /\ Goto(t, "w_time")
    /\ UNCHANGED <<fsVars, folders, leaf_folders_cache, loc, seqVars, serveVars>>

\* line 149: _image_cache['timestamp'] = time.time()
w_time(t) ==
    /\ At(t, "w_time")
    /\ image_cache' = [image_cache EXCEPT !.timestamp = now]
    /\ tag' = [tag EXCEPT !.timestamp = t]
    /\ Goto(t, "w_mtimes")
    /\ UNCHANGED <<fsVars, folders, leaf_folders_cache, loc, seqVars, serveVars>>

\* lines 150-152: _image_cache['folder_mtimes'] = folder_mtimes; return images
w_mtimes(t) ==
    /\ At(t, "w_mtimes")
    /\ image_cache' = [image_cache EXCEPT !.folder_mtimes = loc[t].mtimes]
    /\ tag' = [tag EXCEPT !.folder_mtimes = t]
    /\ loc' = [loc EXCEPT ![t].result = Some(loc[t].images),
                          ![t].images = <<>>, ![t].mtimes = NoMtimes]
    /\ Goto(t, Return(t))
    /\ UNCHANGED <<fsVars, folders, leaf_folders_cache, seqVars, serveVars>>

\* get_leaf_folders, line 181: if _leaf_folders_cache
l_check(t) ==
    /\ At(t, "l_check")
    /\ Goto(t, IF leaf_folders_cache # <<>> THEN "l_ret" ELSE "g_load")
    /\ UNCHANGED <<fsVars, folders, image_cache, leaf_folders_cache, loc, tag, seqVars, serveVars>>

\* line 182: return _leaf_folders_cache, read once more
l_ret(t) ==
    /\ At(t, "l_ret")
    /\ loc' = [loc EXCEPT ![t].result = Some(leaf_folders_cache)]
    /\ Goto(t, "done")
    /\ UNCHANGED <<fsVars, folders, image_cache, leaf_folders_cache, tag, seqVars, serveVars>>

\* lines 185-214: the aggregates of the list get_all_images() returned;
\* iterating over None raises and the request fails
l_compute(t) ==
    /\ At(t, "l_compute")
    /\ IF loc[t].result = None
       THEN /\ Goto(t, "done")
            /\ loc' = [loc EXCEPT ![t].hit = FALSE, ![t].seen = NoSeen]
       ELSE /\ loc' = [loc EXCEPT ![t].result = Some(FolderAggregates(loc[t].result[1])),
                                  ![t].hit = FALSE, ![t].seen = NoSeen]
            /\ Goto(t, "l_store")
    /\ UNCHANGED <<fsVars, folders, image_cache, leaf_folders_cache, tag, seqVars, serveVars>>

\* lines 217-219: _leaf_folders_cache = leaf_folders; return leaf_folders
l_store(t) ==
    /\ At(t, "l_store")
    /\ leaf_folders_cache' = loc[t].result[1]
    /\ Goto(t, "done")
    /\ UNCHANGED <<fsVars, folders, image_cache, loc, tag, seqVars, serveVars>>

\* add_folder, lines 49-61: isdir, load_config, the duplicate test, append
a_load(t) ==
    /\ At(t, "a_load")
    /\ IF ~IsDir(loc[t].arg) \/ loc[t].arg \in Range(folders)
       THEN /\ Goto(t, "done")
            /\ loc' = [loc EXCEPT ![t].arg = ""]
       ELSE /\ loc' = [loc EXCEPT ![t].cfg = Append(folders, loc[t].arg), ![t].arg = ""]
            /\ Goto(t, "save")
    /\ UNCHANGED <<fsVars, folders, image_cache, leaf_folders_cache, tag, seqVars, serveVars>>

\* remove_folder, lines 84-88: load_config, the membership test, remove
r_load(t) ==
    /\ At(t, "r_load")
    /\ IF loc[t].arg \in Range(folders)
       THEN /\ loc' = [loc EXCEPT ![t].cfg = RemoveFirst(folders, loc[t].arg),
                                  ![t].arg = ""]
            /\ Goto(t, "save")
       ELSE /\ Goto(t, "done")
            /\ loc' = [loc EXCEPT ![t].arg = ""]
    /\ UNCHANGED <<fsVars, folders, image_cache, leaf_folders_cache, tag, seqVars, serveVars>>

\* faulty variant: the new root list is stored and the caches are left alone
save_Only(t) ==
    /\ At(t, "save")
    /\ folders' = loc[t].cfg
    /\ loc' = [loc EXCEPT ![t].cfg = <<>>]
    /\ Goto(t, "done")
    /\ UNCHANGED <<fsVars, image_cache, leaf_folders_cache, tag, seqVars, serveVars>>

\* add_folder line 63, remove_folder line 89: save_config(config)
save(t) ==
    /\ At(t, "save")
    /\ folders' = loc[t].cfg
    /\ loc' = [loc EXCEPT ![t].cfg = <<>>]
    /\ Goto(t, "i_images")
    /\ UNCHANGED <<fsVars, image_cache, leaf_folders_cache, tag, seqVars, serveVars>>

\* invalidate_cache, line 100: _image_cache['images'] = None
i_images(t) ==
    /\ At(t, "i_images")
    /\ image_cache' = [image_cache EXCEPT !.images = None]
    /\ tag' = [tag EXCEPT !.images = 0]
    /\ Goto(t, "i_time")
    /\ UNCHANGED <<fsVars, folders, leaf_folders_cache, loc, seqVars, serveVars>>

\* line 101: _image_cache['timestamp'] = 0
i_time(t) ==
    /\ At(t, "i_time")
    /\ image_cache' = [image_cache EXCEPT !.timestamp = 0]
    /\ tag' = [tag EXCEPT !.timestamp = 0]
    /\ Goto(t, "i_mtimes")
    /\ UNCHANGED <<fsVars, folders, leaf_folders_cache, loc, seqVars, serveVars>>

\* line 102: _image_cache['folder_mtimes'] = {}
i_mtimes(t) ==
    /\ At(t, "i_mtimes")
    /\ image_cache' = [image_cache EXCEPT !.folder_mtimes = NoMtimes]
    /\ tag' = [tag EXCEPT !.folder_mtimes = 0]
    /\ Goto(t, "i_leaf")
    /\ UNCHANGED <<fsVars, folders, leaf_folders_cache, loc, seqVars, serveVars>>

\* line 103: _leaf_folders_cache = []
i_leaf(t) ==
    /\ At(t, "i_leaf")
    /\ leaf_folders_cache' = <<>>
    /\ Goto(t, "done")
    /\ UNCHANGED <<fsVars, folders, image_cache, loc, tag, seqVars, serveVars>>

\* the response is sent and the thread is free again
Finish(t) ==
    /\ At(t, "done")
    /\ Goto(t, "idle")
    /\ loc' = [loc EXCEPT ![t] = NoRequest]
    /\ UNCHANGED <<fsVars, folders, image_cache, leaf_folders_cache, tag, seqVars, serveVars>>

NextThreads ==
    \/ \E t \in Threads : Start(t, "list", "")
    \/ \E t \in Threads : Start(t, "leaf", "")
    \/ \E t \in Threads, p \in DirUniverse : Start(t, "add", p)
    \/ \E t \in Threads, p \in DirUniverse : Start(t, "remove", p)
    \/ \E t \in Threads : g_load(t)
    \/ \E t \in Threads : v_images(t)
    \/ \E t \in Threads : v_ttl(t)
    \/ \E t \in Threads : v_roots(t)
    \/ \E t \in Threads : v_mtimes(t)
    \/ \E t \in Threads : hit(t)
    \/ \E t \in Threads : scan(t)
    \/ \E t \in Threads : w_images(t)
    \/ \E t \in Threads : w_time(t)
    \/ \E t \in Threads : w_mtimes(t)
    \/ \E t \in Threads : l_check(t)
    \/ \E t \in Threads : l_ret(t)
    \/ \E t \in Threads : l_compute(t)
    \/ \E t \in Threads : l_store(t)
    \/ \E t \in Threads : a_load(t)
    \/ \E t \in Threads : r_load(t)
    \/ \E t \in Threads : save(t)
    \/ \E t \in Threads : i_images(t)
    \/ \E t \in Threads : i_time(t)
    \/ \E t \in Threads : i_mtimes(t)
    \/ \E t \in Threads : i_leaf(t)
    \/ \E t \in Threads : Finish(t)

SpecThreads == Init /\ [][NextThreads]_vars

(* ------------------- the path functions, applied ---------------------- *)
\* a caller picks a string, applies a function to it and drops the result
PickPath(p) ==
    /\ call.fn = "none"
    /\ call' = [fn |-> "picked", arg |-> p]
    /\ UNCHANGED <<fsVars, folders, image_cache, leaf_folders_cache, threadVars,
                   seqVars, optimizations, thumbs, thumbdir, req, adminVars>>

NormalizeCall ==
    /\ call.fn = "picked"
    /\ call' = [fn |-> "normalize_path", arg |-> call.arg,
                out |-> normalize_path(call.arg),
                again |-> normalize_path(normalize_path(call.arg))]
    /\ UNCHANGED <<fsVars, folders, image_cache, leaf_folders_cache, threadVars,
                   seqVars, optimizations, thumbs, thumbdir, req, adminVars>>

\* cfg: the roots load_config() gave the call
AllowedCall ==
    /\ call.fn = "picked"
    /\ call' = [fn |-> "is_path_allowed", arg |-> call.arg, cfg |-> folders,
                out |-> is_path_allowed(call.arg)]
    /\ UNCHANGED <<fsVars, folders, image_cache, leaf_folders_cache, threadVars,
                   seqVars, optimizations, thumbs, thumbdir, req, adminVars>>

Forget ==
    /\ call.fn \notin {"none", "picked"}
    /\ call' = [fn |-> "none"]
    /\ UNCHANGED <<fsVars, folders, image_cache, leaf_folders_cache, threadVars,
                   seqVars, optimizations, thumbs, thumbdir, req, adminVars>>

NextPaths ==
    \/ \E p \in DirUniverse : AddFolderReq(p)
    \/ \E p \in DirUniverse : RemoveFolderReq(p)
    \/ \E p \in PathStrings : PickPath(p)
    \/ NormalizeCall
    \/ AllowedCall
    \/ Forget

SpecPaths == Init /\ [][NextPaths]_vars

(* -------------------------- the derivative key ------------------------ *)
\* The source paths, stat values, versions and kinds a key is computed for.
KeyChars == {"a", ":", "1"}
KeyPaths == UNION {[1..k -> KeyChars] : k \in 0..MaxKeyLen}
StatInts == {1, 11}
Versions == {CACHE_VERSION, CACHE_VERSION + 1}
Kinds == {"thumbnail", "poster"}
KeyInputs ==
    [path : KeyPaths, mtime : StatInts, size : StatInts, version : Versions,
     kind : Kinds]

\* str(n) of an f-string
RECURSIVE Digits(_)
Digits(n) ==
    LET d == <<"0", "1", "2", "3", "4", "5", "6", "7", "8", "9">>
    IN  IF n < 0 THEN <<"-">> \o Digits(0 - n)
        ELSE IF n < 10 THEN <<d[n + 1]>>
        ELSE Digits(n \div 10) \o <<d[(n % 10) + 1]>>

\* faulty variant: the fields are joined without the separators
HashInput_NoSeparators(path, mtime, size, version) ==
    path \o Digits(mtime) \o Digits(size) \o <<"v">> \o Digits(version)

\* get_thumbnail_path, line 38: f"{image_path}:{file_mtime}:{file_size}:v{CACHE_VERSION}"
HashInput(path, mtime, size, version) ==
    path \o <<":">> \o Digits(mtime) \o <<":">> \o Digits(size) \o <<":", "v">>
         \o Digits(version)

\* hashlib.md5(...).hexdigest(): the digest stands for the string it was
\* computed from, different strings having different digests
md5(string) == <<"md5">> \o string

\* get_thumbnail_path, lines 38-39, and for a poster the
\* .replace('.webp', '_poster.jpg') of images.py line 541
CachePath(in) ==
    [dir |-> "THUMBNAIL_DIR",
     name |-> md5(HashInput(in.path, in.mtime, in.size, in.version)),
     ext |-> IF in.kind = "poster" THEN "_poster.jpg" ELSE ".webp"]

\* a caller picks two inputs and computes the cache path of each
PickKeys ==
    /\ call.fn = "none"
    /\ \E a, b \in KeyInputs : call' = [fn |-> "picked", a |-> a, b |-> b]
    /\ UNCHANGED <<fsVars, folders, image_cache, leaf_folders_cache, threadVars,
                   seqVars, optimizations, thumbs, thumbdir, req, adminVars>>

KeyCall ==
    /\ call.fn = "picked"
    /\ call' = [fn |-> "get_thumbnail_path", a |-> call.a, b |-> call.b,
                fedA |-> HashInput(call.a.path, call.a.mtime, call.a.size, call.a.version),
                fedB |-> HashInput(call.b.path, call.b.mtime, call.b.size, call.b.version),
                outA |-> CachePath(call.a),
                outB |-> CachePath(call.b)]
    /\ UNCHANGED <<fsVars, folders, image_cache, leaf_folders_cache, threadVars,
                   seqVars, optimizations, thumbs, thumbdir, req, adminVars>>

NextKeys ==
    \/ PickKeys
    \/ KeyCall
    \/ Forget

SpecKeys == Init /\ [][NextKeys]_vars

(* ------------------------- the Range header --------------------------- *)
\* The characters of a range specification and the specifications given.
RangeChars == {"0", "1", "2", "-", ",", " "}
RangeSpecs == UNION {[1..k -> RangeChars] : k \in 0..MaxRangeLen}
\* request.headers.get('Range'): absent, in another unit, or "bytes=" followed
\* by a specification. (What becomes of an empty value is decided inside
\* send_file.)
RangeHeaders ==
    {None, Some(<<"items=", "0", "-", "0">>)}
        \cup {Some(<<"bytes=">> \o spec) : spec \in RangeSpecs}
FileSizes == 0..MaxFileSize

\* str.strip()
RECURSIVE strip(_)
strip(s) ==
    IF s = <<>> THEN s
    ELSE IF Head(s) = " " THEN strip(Tail(s))
    ELSE IF s[Len(s)] = " " THEN strip(SubSeq(s, 1, Len(s) - 1))
    ELSE s

\* str.split(sep)
RECURSIVE split(_, _)
split(s, sep) ==
    IF \A i \in 1..Len(s) : s[i] # sep THEN <<s>>
    ELSE LET k == CHOOSE i \in 1..Len(s) :
                      s[i] = sep /\ \A j \in 1..(i - 1) : s[j] # sep
         IN  <<SubSeq(s, 1, k - 1)>> \o split(SubSeq(s, k + 1, Len(s)), sep)

\* the value of a string of decimal digits
RECURSIVE DigitsValue(_)
DigitsValue(s) ==
    IF s = <<>> THEN 0
    ELSE 10 * DigitsValue(SubSeq(s, 1, Len(s) - 1))
         + (CHOOSE d \in 0..9 : Digits(d) = <<s[Len(s)]>>)

\* int(s): blanks around the number and a sign before it are accepted;
\* None stands for ValueError
int(s) ==
    LET t == strip(s)
        neg == t # <<>> /\ t[1] = "-"
        digits == IF neg THEN Tail(t) ELSE t
    IN  IF digits = <<>> \/ \E i \in 1..Len(digits) : digits[i] \notin {"0", "1", "2"}
        THEN None
        ELSE Some(IF neg THEN 0 - DigitsValue(digits) ELSE DigitsValue(digits))

Min(a, b) == IF a < b THEN a ELSE b
Max(a, b) == IF a > b THEN a ELSE b

\* faulty variant: the end of a range is not clamped to the file size
Validated_Unclamped(start, end, file_size) ==
    IF start = None \/ end = None THEN None
    ELSE IF start[1] < 0 \/ end[1] < start[1] \/ start[1] >= file_size THEN None
    ELSE Some([start |-> start[1], end |-> end[1]])

\* faulty variant: a start at or past the end of the file is let through
Validated_PastEnd(start, end, file_size) ==
    IF start = None \/ end = None THEN None
    ELSE IF start[1] < 0 \/ end[1] < start[1] THEN None
    ELSE Some([start |-> start[1], end |-> Min(end[1], file_size - 1)])

\* _parse_range_header lines 275-282; None stands for (None, None)
Validated(start, end, file_size) ==
    IF start = None \/ end = None THEN None
    ELSE IF start[1] < 0 \/ end[1] < start[1] \/ start[1] >= file_size THEN None
    ELSE Some([start |-> start[1], end |-> Min(end[1], file_size - 1)])

\* faulty variant: the last of several ranges is taken
FirstRange_Last(range_spec) ==
    IF \E i \in 1..Len(range_spec) : range_spec[i] = ","
    THEN strip(split(range_spec, ",")[Len(split(range_spec, ","))])
    ELSE range_spec

\* _parse_range_header lines 252-255
FirstRange(range_spec) ==
    IF \E i \in 1..Len(range_spec) : range_spec[i] = ","
    THEN strip(split(range_spec, ",")[1])
    ELSE range_spec

\* faulty variant: a suffix range starts at the suffix length
SuffixStart_FromFront(file_size, suffix_length) == Min(suffix_length, file_size)

\* _parse_range_header line 261
SuffixStart(file_size, suffix_length) == Max(0, file_size - suffix_length)

\* _parse_range_header lines 245-284
_parse_range_header(range_header, file_size) ==
    IF range_header = <<>> \/ range_header[1] # "bytes=" THEN None
    ELSE LET range_spec == FirstRange(strip(Tail(range_header)))
             n == Len(range_spec)
         IN  IF n > 0 /\ range_spec[1] = "-"
             THEN LET suffix_length == int(Tail(range_spec))
                  IN  IF suffix_length = None THEN None
                      ELSE Validated(Some(SuffixStart(file_size, suffix_length[1])),
                                     Some(file_size - 1), file_size)
             ELSE IF n > 0 /\ range_spec[n] = "-"
             THEN Validated(int(SubSeq(range_spec, 1, n - 1)), Some(file_size - 1),
                            file_size)
             ELSE LET parts == split(range_spec, "-")
                  IN  IF Len(parts) # 2 THEN None
                      ELSE Validated(int(parts[1]), int(parts[2]), file_size)

(* ------------------------ serving an original ------------------------- *)
\* Path(path).suffix.lower()
ServeSuffix(p) ==
    IF p # <<>> /\ p[Len(p)] \in {".JPG", ".mp4", ".webm", ".gif"}
    THEN Lower(p[Len(p)]) ELSE ""

\* serve_image line 320: the ETag of an original
ImageETag(path, st) ==
    <<"\"">> \o md5(path \o <<":">> \o Digits(st.mtime) \o <<":">> \o Digits(st.size))
             \o <<"\"">>

\* the request headers serve_image reads. If-Modified-Since is given as what
\* parsedate_to_datetime makes of it: a time in seconds, or an error.
NoValidators == [inm |-> None, ims |-> None]
Validators(path, st) ==
    [inm : {None, Some(ImageETag(path, st)), Some(<<"\"", "x", "\"">>)},
     ims : {None, Some([parsed |-> FALSE, time |-> 0])}
              \cup {Some([parsed |-> TRUE, time |-> t]) : t \in 0..(MaxMtime + 1)}]

\* a response: its status, its body (what it is, and which bytes of the file
\* it holds) and the headers the handler sets
Response(status, body, offset, length) ==
    [status |-> status, body |-> body, offset |-> offset, length |-> length,
     cache_control |-> "", etag |-> <<>>, accept_ranges |-> "",
     content_range |-> <<>>, last_modified |-> 0]

\* f.seek(start); f.read(n): how many bytes a file of that size gives
ReadLength(file_size, start, n) == Min(n, Max(0, file_size - start))

\* faulty variant: the validators are tested for videos too
Conditional_AllKinds(ext) == TRUE

\* serve_image line 323: the branch for videos returns before the validators
\* are looked at
Conditional(ext) == ext \notin VIDEO_FORMATS

\* serve_image lines 310-385, for a file that exists and is allowed.
\* range: the Range header; v: the validators
serve_image(path, st, range, v) ==
    LET ext == ServeSuffix(path)
        etag == ImageETag(path, st)
        whole == [Response(200, "original", 0, st.size) EXCEPT
                    !.etag = etag, !.last_modified = st.mtime]
    IN  IF ~Conditional(ext) /\ range # None /\ range[1] # <<>>
        THEN LET r == _parse_range_header(range[1], st.size)
             IN  IF r # None
                 THEN [Response(206, "range", r[1].start,
                                ReadLength(st.size, r[1].start,
                                           r[1].end - r[1].start + 1)) EXCEPT
                         !.content_range =
                             <<"bytes", " ">> \o Digits(r[1].start) \o <<"-">>
                                 \o Digits(r[1].end) \o <<"/">> \o Digits(st.size),
                         !.accept_ranges = "bytes",
                         !.cache_control = "public, max-age=604800",
                         !.etag = etag, !.last_modified = st.mtime]
                 ELSE [Response(416, "Requested Range Not Satisfiable", 0, 0) EXCEPT
                         !.content_range =
                             <<"bytes", " ", "*", "/">> \o Digits(st.size)]
        ELSE IF ~Conditional(ext)
        THEN [whole EXCEPT !.accept_ranges = "bytes",
                           !.cache_control = "public, max-age=604800"]
        ELSE IF v.inm = Some(etag)
        THEN Response(304, "", 0, 0)
        ELSE IF v.ims # None /\ v.ims[1].parsed /\ v.ims[1].time >= st.mtime
        THEN Response(304, "", 0, 0)
        ELSE [whole EXCEPT !.cache_control = "public, max-age=604800, immutable"]

\* the requests for an original: a video of every size asked for in ranges,
\* and an image and a video asked for with validators. (A video is not asked
\* for with If-Modified-Since: serve_image does not read it for a video, and
\* what becomes of it is decided inside send_file.)
OriginalRequests ==
    {[path |-> FilePath(F2), st |-> [exists |-> TRUE, mtime |-> 1, size |-> n],
      range |-> h, v |-> NoValidators] : n \in FileSizes, h \in RangeHeaders}
    \cup UNION {{[path |-> FilePath(f),
                  st |-> [exists |-> TRUE, mtime |-> m, size |-> MaxFileSize],
                  range |-> None, v |-> v] :
                     v \in {w \in Validators(FilePath(f),
                                      [exists |-> TRUE, mtime |-> m, size |-> MaxFileSize]) :
                                f = F2 => w.ims = None}} :
                f \in {F1, F2}, m \in Mtimes}

PickOriginal ==
    /\ call.fn = "none"
    /\ \E r \in OriginalRequests : call' = [fn |-> "picked", r |-> r]
    /\ UNCHANGED <<fsVars, folders, image_cache, leaf_folders_cache, threadVars,
                   seqVars, optimizations, thumbs, thumbdir, req, adminVars>>

\* parsed (history): what _parse_range_header made of the Range header
ServeImageCall ==
    /\ call.fn = "picked"
    /\ call' = [fn |-> "serve_image", r |-> call.r,
                parsed |-> IF call.r.range = None THEN None
                           ELSE _parse_range_header(call.r.range[1], call.r.st.size),
                resp |-> serve_image(call.r.path, call.r.st, call.r.range, call.r.v)]
    /\ UNCHANGED <<fsVars, folders, image_cache, leaf_folders_cache, threadVars,
                   seqVars, optimizations, thumbs, thumbdir, req, adminVars>>

NextOriginal ==
    \/ PickOriginal
    \/ ServeImageCall
    \/ Forget

SpecOriginal == Init /\ [][NextOriginal]_vars

(* -------------------------- serving the media ------------------------- *)
\* The handlers of /image, /thumbnail, /video-poster and /api/metadata on the
\* threads of the server, with DELETE /api/cache, POST /api/settings and the
\* folder requests between their steps. The source files do not change here.
GIF_FORMATS == {".gif"}
Routes == {"image", "thumbnail", "video-poster", "metadata"}
\* a file in a sibling directory of "/a" whose name starts with "/a"
OutsideFile == [dir |-> "/as", name |-> "1", suffix |-> ".JPG"]
OutsideStat == [exists |-> TRUE, mtime |-> 1, size |-> 1]
\* an animation in the root "/a"
GifFile == [dir |-> "/a", name |-> "4", suffix |-> ".gif"]
\* the root that is added while the media are served
ServeRoots == {"/a"}
\* request.args.get('path'): nothing, the image, the video with a slash still
\* quoted, the file beside the root and a file that does not exist
QuotedVideo == <<"/", "a", "%2F", "s", "/", "2", ".mp4">>
ServeArgs ==
    {<<>>, FilePath(F1), QuotedVideo, FilePath(OutsideFile), <<"/", "a", "/", "x">>,
     FilePath(GifFile)}
\* the thread that takes the requests when they come one at a time
ServeThread == 1
\* the routes that write to THUMBNAIL_DIR and the sources they are asked for
DeriveRoutes == {"thumbnail", "video-poster"}
DeriveArgs == {FilePath(F1), QuotedVideo}

\* urllib.parse.unquote
unquote(p) == [i \in 1..Len(p) |-> IF p[i] = "%2F" THEN "/" ELSE p[i]]

\* os.stat(path) with int(file_stat.st_mtime): the whole seconds
ServeStat(p) ==
    IF \E f \in FileUniverse : FilePath(f) = p
    THEN fileStat[CHOOSE f \in FileUniverse : FilePath(f) = p]
    ELSE IF p \in {FilePath(OutsideFile), FilePath(GifFile)} THEN OutsideStat
    ELSE NoFile

\* the state of the source at path p, with the fraction of its st_mtime
SourceState(p) ==
    [mtime |-> ServeStat(p).mtime,
     subsec |-> IF \E f \in FileUniverse : FilePath(f) = p
                THEN subsec[CHOOSE f \in FileUniverse : FilePath(f) = p] ELSE 0,
     size |-> ServeStat(p).size]

\* get_thumbnail_path(path, file_mtime, file_size) and the poster path
DerivativeOf(p, kind) ==
    CachePath([path |-> p, mtime |-> ServeStat(p).mtime, size |-> ServeStat(p).size,
               version |-> CACHE_VERSION, kind |-> kind])

serveRest ==
    <<fsVars, folders, image_cache, leaf_folders_cache, loc, tag, seqVars,
      optimizations, call, adminVars>>

\* serve_thumbnail lines 442-443, serve_video_poster lines 530-531: the ETag
\* of a derivative
ThumbETag(path, st) ==
    <<"\"">> \o md5(path \o <<":">> \o Digits(st.mtime) \o <<":">> \o Digits(st.size)
                         \o <<":", "v">> \o Digits(CACHE_VERSION) \o <<":", "thumb">>)
             \o <<"\"">>
PosterETag(path, st) ==
    <<"\"">> \o md5(path \o <<":">> \o Digits(st.mtime) \o <<":">> \o Digits(st.size)
                         \o <<":", "poster">>)
             \o <<"\"">>

\* request.headers.get('If-None-Match'): nothing, or an ETag that one of the
\* routes has issued for the image
ServeTags ==
    {None, Some(ImageETag(FilePath(F1), fileStat[F1])),
     Some(ThumbETag(FilePath(F1), fileStat[F1]))}

\* the handler returns a response without headers of its own
Respond(t, r, status, body) ==
    /\ Goto(t, "idle")
    /\ req' = [req EXCEPT ![t] = [r EXCEPT !.status = status, !.body = body]]

\* the handler returns a response with Cache-Control and ETag
Answer(t, r, resp) ==
    /\ Goto(t, "idle")
    /\ req' = [req EXCEPT ![t] =
                 [r EXCEPT !.status = resp.status, !.body = resp.body,
                           !.cache_control = resp.cache_control,
                           !.etag = resp.etag]]

\* a request arrives at an idle thread
ServeStart(t, route, arg, inm) ==
    /\ At(t, "idle")
    /\ req' = [req EXCEPT ![t] =
                 [NoServe EXCEPT !.route = route, !.asked = route, !.arg = arg,
                                 !.inm = inm,
                                 !.inm_src =
                                     IF inm = Some(req[t].etag) /\ arg = req[t].arg
                                     THEN req[t].src ELSE NoSource]]
    /\ Goto(t, IF route \in {"thumbnail", "video-poster"} THEN "s_flag"
               ELSE "s_guard")
    /\ UNCHANGED <<serveRest, thumbs, thumbdir>>

\* serve_thumbnail lines 399-400, serve_video_poster lines 495-496:
\* optimizations.get(key, False)
FlagOf(route) ==
    IF route = "thumbnail" THEN optimizations.thumbnail_cache
    ELSE optimizations.video_poster_cache

\* faulty variant: the handlers go on whatever the optimization is
s_flag_IgnoresFlag(t) ==
    /\ At(t, "s_flag")
    /\ Goto(t, "s_guard")
    /\ req' = [req EXCEPT ![t].flag = IF FlagOf(req[t].route) THEN "on" ELSE "off"]
    /\ UNCHANGED <<serveRest, thumbs, thumbdir>>

\* serve_thumbnail lines 399-404, serve_video_poster lines 495-499. flag
\* (history): what the handler found the optimization to be
s_flag(t) ==
    /\ At(t, "s_flag")
    /\ LET on == FlagOf(req[t].route)
           r == [req[t] EXCEPT !.flag = IF on THEN "on" ELSE "off"]
       IN  IF on
           THEN Goto(t, "s_guard") /\ req' = [req EXCEPT ![t] = r]
           ELSE IF r.route = "thumbnail"
           THEN /\ Goto(t, "s_guard")
                /\ req' = [req EXCEPT ![t] = [r EXCEPT !.route = "image"]]
           ELSE Respond(t, r, 403, "disabled")
    /\ UNCHANGED <<serveRest, thumbs, thumbdir>>

\* faulty variant: only videos are kept away from create_thumbnail
Animated_VideosOnly(ext) == ext \in VIDEO_FORMATS

\* serve_thumbnail line 426
Animated(ext) == ext \in GIF_FORMATS \/ ext \in VIDEO_FORMATS

\* serve_thumbnail lines 446-453, serve_video_poster lines 534-541: the
\* If-None-Match test, ensure_thumbnail_dir and the cache path. "mkdir" is
\* noted when the directory was made by this request.
s_derive(t, r, etag, kind) ==
    IF r.inm = Some(etag)
    THEN Respond(t, r, 304, "") /\ UNCHANGED thumbdir
    ELSE /\ thumbdir' = TRUE
         /\ Goto(t, "t_exists")
         /\ req' = [req EXCEPT ![t] =
                      [r EXCEPT !.target = DerivativeOf(r.path, kind),
                                !.touched = @ \cup (IF thumbdir THEN {} ELSE {"mkdir"})]]

\* serve_image lines 293-385, get_image_metadata lines 98-110 with
\* validate_and_normalize_path lines 83-94, serve_thumbnail lines 406-453,
\* serve_video_poster lines 501-541: the path is required, normalized, checked
\* against the roots, looked for on disk and stat-ed, in that order
s_guard(t) ==
    /\ At(t, "s_guard")
    /\ LET path == normalize_path(unquote(req[t].arg))
           r == [req[t] EXCEPT !.path = path, !.checked = folders]
           ext == ServeSuffix(path)
           st == ServeStat(path)
           seen == [r EXCEPT !.touched = @ \cup {"exists"}]
           stat == [r EXCEPT !.touched = @ \cup {"exists", "stat"},
                             !.src = SourceState(path)]
           read == [stat EXCEPT !.touched = @ \cup {"read"}]
           original == serve_image(path, st, None, [inm |-> r.inm, ims |-> None])
       IN  IF req[t].arg = <<>>
           THEN Respond(t, req[t], 400, "") /\ UNCHANGED thumbdir
           ELSE IF ~is_path_allowed(path)
           THEN Respond(t, r, 403, "") /\ UNCHANGED thumbdir
           ELSE IF ~st.exists
           THEN Respond(t, seen, 404, "") /\ UNCHANGED thumbdir
           ELSE CASE r.route = "image" ->
                       /\ Answer(t, IF original.status = 200 THEN read ELSE stat,
                                 original)
                       /\ UNCHANGED thumbdir
                  [] r.route = "metadata" ->
                       Respond(t, read, 200, "metadata") /\ UNCHANGED thumbdir
                  [] r.route = "thumbnail" ->
                       IF Animated(ext)
                       THEN /\ Goto(t, "s_guard")
                            /\ req' = [req EXCEPT ![t] = [seen EXCEPT !.route = "image"]]
                            /\ UNCHANGED thumbdir
                       ELSE s_derive(t, stat, ThumbETag(path, st), "thumbnail")
                  [] r.route = "video-poster" ->
                       IF ext \notin VIDEO_FORMATS
                       THEN Respond(t, seen, 400, "not a video") /\ UNCHANGED thumbdir
                       ELSE s_derive(t, stat, PosterETag(path, st), "poster")
    /\ UNCHANGED <<serveRest, thumbs>>

\* faulty variant: the cache is not looked at
Cached_Never(c) == FALSE

\* os.path.exists(thumbnail_path), os.path.exists(poster_path)
Cached(c) == c \in DOMAIN thumbs

\* serve_thumbnail line 456, serve_video_poster line 544
t_exists(t) ==
    /\ At(t, "t_exists")
    /\ Goto(t, IF Cached(req[t].target) THEN "t_send" ELSE "t_open")
    /\ UNCHANGED <<serveRest, thumbs, thumbdir, req>>

\* faulty variant: the store keeps the newest derivative only
t_open_Single(t) ==
    /\ At(t, "t_open")
    /\ thumbs' = [x \in {req[t].target} |->
                    [complete |-> FALSE, writer |-> t, writes |-> 1,
                     of |-> SourceState(req[t].path)]]
    /\ req' = [req EXCEPT ![t].touched = @ \cup {"read", "generate"}]
    /\ Goto(t, "t_close")
    /\ UNCHANGED <<serveRest, thumbdir>>

\* create_thumbnail up to the open of img.save (line 103), create_video_poster
\* up to ffmpeg's open of its output (-y, line 141): the file at the cache
\* path is created or truncated. writes (history): how often the file was
\* opened for writing since it was created; writer: the thread that opened it
\* last and has not closed it; of: the state of the source it was made from.
t_open(t) ==
    /\ At(t, "t_open")
    /\ LET c == req[t].target
           writes == IF c \in DOMAIN thumbs THEN thumbs[c].writes ELSE 0
       IN  thumbs' = [x \in DOMAIN thumbs \cup {c} |->
                        IF x = c
                        THEN [complete |-> FALSE, writer |-> t, writes |-> writes + 1,
                              of |-> SourceState(req[t].path)]
                        ELSE thumbs[x]]
    /\ req' = [req EXCEPT ![t].touched = @ \cup {"read", "generate"}]
    /\ Goto(t, "t_close")
    /\ UNCHANGED <<serveRest, thumbdir>>

\* faulty variant: a thumbnail that cannot be made ends the request as a
\* poster that cannot be made does
t_fail_Terminal(t) ==
    /\ At(t, "t_open")
    /\ Respond(t, [req[t] EXCEPT !.touched = @ \cup {"generate", "failed"}], 500, "")
    /\ UNCHANGED <<serveRest, thumbs, thumbdir>>

\* create_thumbnail lines 106-108 (no imaging library, or the source cannot be
\* decoded), create_video_poster lines 154-168 (ffmpeg missing, failing or
\* timing out); serve_thumbnail lines 459-462, serve_video_poster lines 546-548
t_fail(t) ==
    /\ At(t, "t_open")
    /\ LET r == [req[t] EXCEPT !.touched = @ \cup {"generate", "failed"}]
       IN  IF r.route = "thumbnail"
           THEN /\ Goto(t, "s_guard")
                /\ req' = [req EXCEPT ![t] = [r EXCEPT !.route = "image"]]
           ELSE Respond(t, r, 500, "")
    /\ UNCHANGED <<serveRest, thumbs, thumbdir>>

\* the writer has written everything and closes the file; the content at the
\* cache path is whole if nobody truncated or removed the file meanwhile.
\* create_video_poster line 151 then looks for the file again.
t_close(t) ==
    /\ At(t, "t_close")
    /\ LET c == req[t].target
           mine == c \in DOMAIN thumbs /\ thumbs[c].writer = t
       IN  /\ thumbs' = IF mine
                        THEN [thumbs EXCEPT ![c].complete = TRUE, ![c].writer = 0]
                        ELSE thumbs
           /\ IF req[t].route = "video-poster" /\ c \notin DOMAIN thumbs
              THEN Respond(t, req[t], 500, "")
              ELSE Goto(t, "t_send") /\ UNCHANGED req
    /\ UNCHANGED <<serveRest, thumbdir>>

\* serve_thumbnail lines 468-482, serve_video_poster lines 551-565: os.stat
\* of the cache path and send_file with the headers of a derivative
t_send(t) ==
    /\ At(t, "t_send")
    /\ LET r == req[t]
           c == r.target
           etag == IF r.route = "thumbnail"
                   THEN ThumbETag(r.path, ServeStat(r.path))
                   ELSE PosterETag(r.path, ServeStat(r.path))
       IN  IF c \notin DOMAIN thumbs
           THEN Respond(t, r, 500, "")
           ELSE Answer(t, [r EXCEPT !.touched = @ \cup {"sent"},
                                    !.sent_src = thumbs[c].of],
                       [status |-> 200,
                        body |-> IF thumbs[c].complete THEN "derivative"
                                 ELSE "incomplete",
                        cache_control |-> "public, max-age=604800, immutable",
                        etag |-> etag])
    /\ UNCHANGED <<serveRest, thumbs, thumbdir>>

\* DELETE /api/cache: clear_cache removes every file of THUMBNAIL_DIR
\* faulty variant: every file that was come upon is counted as deleted
clear_cache_CountsAll(files, failing) ==
    [deleted_count |-> Cardinality(files), errors |-> failing]

\* clear_cache lines 98-114. files: the files os.walk lists; failing: the
\* ones os.remove raises for
clear_cache(files, failing) ==
    [deleted_count |-> Cardinality(files \ failing), errors |-> failing]

\* DELETE /api/cache: clear_cache goes through the files of THUMBNAIL_DIR and
\* removes each one that os.remove does not fail for
ClearCacheReq(failing) ==
    /\ failing \subseteq DOMAIN thumbs
    /\ thumbs' = [c \in failing |-> thumbs[c]]
    /\ cleared' = clear_cache(DOMAIN thumbs, failing)
    /\ UNCHANGED <<fsVars, folders, image_cache, leaf_folders_cache, threadVars,
                   seqVars, optimizations, call, thumbdir, subsec, req, extraVars>>

\* POST /api/settings: update_settings with one optimization
UpdateSettingsReq(key, value) ==
    /\ optimizations' = [optimizations EXCEPT ![key] = value]
    /\ UNCHANGED <<fsVars, folders, image_cache, leaf_folders_cache, threadVars,
                   seqVars, call, thumbs, thumbdir, req, adminVars>>

\* every route with every argument, one request at a time; os.remove does not
\* fail
NextServe ==
    \/ \E route \in Routes, arg \in ServeArgs, inm \in ServeTags :
          ServeStart(ServeThread, route, arg, inm)
    \/ s_flag(ServeThread)
    \/ s_guard(ServeThread)
    \/ t_exists(ServeThread)
    \/ t_open(ServeThread)
    \/ t_fail(ServeThread)
    \/ t_close(ServeThread)
    \/ t_send(ServeThread)
    \/ ClearCacheReq({})
    \/ \E key \in DOMAIN DEFAULT_OPTIMIZATIONS, value \in BOOLEAN :
          UpdateSettingsReq(key, value)
    \/ \E p \in ServeRoots : AddFolderReq(p)

SpecServe == Init /\ [][NextServe]_vars

\* the routes that make derivatives, on all threads at once
NextDerive ==
    \/ \E t \in Threads, route \in DeriveRoutes, arg \in DeriveArgs :
          ServeStart(t, route, arg, None)
    \/ \E t \in Threads : s_flag(t)
    \/ \E t \in Threads : s_guard(t)
    \/ \E t \in Threads : t_exists(t)
    \/ \E t \in Threads : t_open(t)
    \/ \E t \in Threads : t_fail(t)
    \/ \E t \in Threads : t_close(t)
    \/ \E t \in Threads : t_send(t)
    \/ ClearCacheReq({})
    \/ \E key \in DOMAIN DEFAULT_OPTIMIZATIONS, value \in BOOLEAN :
          UpdateSettingsReq(key, value)
    \/ \E p \in ServeRoots : AddFolderReq(p)

SpecDerive == Init /\ [][NextDerive]_vars

\* the derivative routes one request at a time and the listings, with
\* DELETE /api/cache and any of its removals failing
ClearArgs == DeriveArgs \cup {FilePath(OutsideFile)}
NextClear ==
    \/ \E route \in DeriveRoutes, arg \in ClearArgs :
          ServeStart(ServeThread, route, arg, None)
    \/ s_flag(ServeThread)
    \/ s_guard(ServeThread)
    \/ t_exists(ServeThread)
    \/ t_open(ServeThread)
    \/ t_fail(ServeThread)
    \/ t_close(ServeThread)
    \/ t_send(ServeThread)
    \/ \E failing \in SUBSET DOMAIN thumbs : ClearCacheReq(failing)
    \/ \E key \in DOMAIN DEFAULT_OPTIMIZATIONS : UpdateSettingsReq(key, TRUE)
    \/ \E p \in ServeRoots : AddFolderReq(p)
    \/ GetAllImagesReq
    \/ GetLeafFoldersReq

SpecClear == Init /\ [][NextClear]_vars

\* the states a rewritten image can have: as it is at first, half a second
\* later, a second later, and one byte shorter
ModifyStates ==
    {[mtime |-> 1, subsec |-> 0, size |-> MAX_VIDEO_SIZE + 1],
     [mtime |-> 1, subsec |-> 5, size |-> MAX_VIDEO_SIZE + 1],
     [mtime |-> 2, subsec |-> 0, size |-> MAX_VIDEO_SIZE + 1],
     [mtime |-> 1, subsec |-> 0, size |-> MAX_VIDEO_SIZE]}

\* the source is written again: its st_mtime or its st_size changes
ModifySource(f, to) ==
    /\ fileStat[f].exists
    /\ to # SourceState(FilePath(f))
    /\ fileStat' = [fileStat EXCEPT ![f] =
                      [exists |-> TRUE, mtime |-> to.mtime, size |-> to.size]]
    /\ subsec' = [subsec EXCEPT ![f] = to.subsec]
    /\ UNCHANGED <<dirStat, now, folders, image_cache, leaf_folders_cache, threadVars,
                   seqVars, optimizations, call, thumbs, thumbdir, cleared, req, extraVars>>

\* /thumbnail for one image, one request at a time; between the requests the
\* image is rewritten; a request may bring the ETag of the response before it
NextModify ==
    \/ \E inm \in {None} \cup (IF req[ServeThread].etag = <<>> THEN {}
                               ELSE {Some(req[ServeThread].etag)}) :
          ServeStart(ServeThread, "thumbnail", FilePath(F1), inm)
    \/ s_flag(ServeThread)
    \/ s_guard(ServeThread)
    \/ t_exists(ServeThread)
    \/ t_open(ServeThread)
    \/ t_fail(ServeThread)
    \/ t_close(ServeThread)
    \/ t_send(ServeThread)
    \/ /\ At(ServeThread, "idle")
       /\ \E to \in ModifyStates : ModifySource(F1, to)
    \/ ClearCacheReq({})
    \/ UpdateSettingsReq("thumbnail_cache", TRUE)
    \/ \E p \in ServeRoots : AddFolderReq(p)

SpecModify == Init /\ [][NextModify]_vars

(* --------------------- a rescan, statement by statement ---------------- *)
\* get_all_images lines 122-150 while the filesystem changes: the
\* high-watermark of a root, the walk over it, and the sort are steps of
\* their own.

\* lines 125-129: the next root; folder_mtimes gets its high-watermark
\* (line 123 starts the rescan with folder_mtimes = {})
b_marks(t) ==
    /\ At(t, "scan")
    /\ IF loc[t].cfg = <<>>
       THEN Goto(t, "b_sort") /\ UNCHANGED loc
       ELSE LET root == Head(loc[t].cfg)
                had == loc[t].mtimes
            IN  IF ~IsDir(root)
                THEN /\ Goto(t, "scan")
                     /\ loc' = [loc EXCEPT ![t].cfg = Tail(@)]
                ELSE /\ Goto(t, "b_walk")
                     /\ loc' = [loc EXCEPT ![t].mtimes =
                                  [r \in DOMAIN had \cup {root} |->
                                     IF r = root THEN get_folder_mtime(root)
                                     ELSE had[r]]]
    /\ below' = (below /\ loc[t].mtimes # NoMtimes)
    /\ UNCHANGED <<fsVars, folders, image_cache, leaf_folders_cache, tag, seqVars,
                   optimizations, call, thumbs, thumbdir, req, cleared, subsec,
                   decoder, listVars>>

\* lines 131-142: os.walk over the root appends the files it lists
b_walk(t) ==
    /\ At(t, "b_walk")
    /\ loc' = [loc EXCEPT ![t].images = @ \o WalkRoot(Head(loc[t].cfg)),
                          ![t].cfg = Tail(@)]
    /\ Goto(t, "scan")
    /\ UNCHANGED <<fsVars, folders, image_cache, leaf_folders_cache, tag, seqVars, serveVars>>

\* faulty variant: a file that is gone sorts like any other
getmtime_raises_Never(images) == FALSE

\* line 145: key=lambda x: os.path.getmtime(x) raises for a file that is no
\* longer there
getmtime_raises(images) == \E i \in 1..Len(images) : ~fileStat[images[i]].exists

\* faulty variant: the high-watermarks are taken after the walk
b_sort_MarksLate(t) ==
    /\ At(t, "b_sort")
    /\ IF getmtime_raises(loc[t].images)
       THEN /\ Goto(t, "done")
            /\ loc' = [loc EXCEPT ![t].result = None, ![t].images = <<>>,
                                  ![t].mtimes = NoMtimes]
       ELSE /\ Goto(t, "w_images")
            /\ loc' = [loc EXCEPT ![t].images = SortNewestFirst(@),
                                  ![t].mtimes = [r \in DOMAIN @ |-> get_folder_mtime(r)]]
    /\ UNCHANGED <<fsVars, folders, image_cache, leaf_folders_cache, tag, seqVars, serveVars>>

\* line 145: images.sort; an exception ends the request with nothing stored
b_sort(t) ==
    /\ At(t, "b_sort")
    /\ IF getmtime_raises(loc[t].images)
       THEN /\ Goto(t, "done")
            /\ loc' = [loc EXCEPT ![t].result = None, ![t].images = <<>>,
                                  ![t].mtimes = NoMtimes]
       ELSE /\ Goto(t, "w_images")
            /\ loc' = [loc EXCEPT ![t].images = SortNewestFirst(@)]
    /\ UNCHANGED <<fsVars, folders, image_cache, leaf_folders_cache, tag, seqVars, serveVars>>

\* the statements of a rescan
Rescanning(t) == pc[t] \in {"scan", "b_walk", "b_sort", "w_images", "w_time", "w_mtimes"}

\* the roots the rescan has recorded a high-watermark for and walked
Walked(t) ==
    DOMAIN loc[t].mtimes \
        (IF At(t, "b_walk") THEN {Head(loc[t].cfg)} ELSE {})

\* the mtimes a file or directory is given during a rescan
RescanMtimes == 1..(MaxMtime + 1)

\* a file of the rescanned tree is rewritten in place, with any mtime and
\* size; the directory keeps its mtime
Rewrite(f, m, sz) ==
    /\ Rescanning(ServeThread)
    /\ fsOps < MaxFsOps /\ fsOps' = fsOps + 1
    /\ fileStat[f].exists
    /\ fileStat[f] # [exists |-> TRUE, mtime |-> m, size |-> sz]
    /\ fileStat' = [fileStat EXCEPT ![f] = [exists |-> TRUE, mtime |-> m, size |-> sz]]
    /\ UNCHANGED dirStat
    /\ below' = (below \/ \E r \in Walked(ServeThread) :
                     /\ InSubtree(f.dir, r)
                     /\ get_folder_mtime(r)' <= loc[ServeThread].mtimes[r])
    /\ UNCHANGED <<now, folders, image_cache, leaf_folders_cache, threadVars,
                   captured, last, ret, optimizations, call, thumbs, thumbdir,
                   req, cleared, subsec, decoder, listVars>>

\* a file is created with mtime m; its directory gets the mtime d
Create(f, m, sz, d) ==
    /\ Rescanning(ServeThread)
    /\ fsOps < MaxFsOps /\ fsOps' = fsOps + 1
    /\ IsDir(f.dir) /\ ~fileStat[f].exists
    /\ fileStat' = [fileStat EXCEPT ![f] = [exists |-> TRUE, mtime |-> m, size |-> sz]]
    /\ dirStat' = [dirStat EXCEPT ![f.dir].mtime = d]
    /\ below' = (below \/ \E r \in Walked(ServeThread) :
                     /\ InSubtree(f.dir, r)
                     /\ get_folder_mtime(r)' <= loc[ServeThread].mtimes[r])
    /\ UNCHANGED <<now, folders, image_cache, leaf_folders_cache, threadVars,
                   captured, last, ret, optimizations, call, thumbs, thumbdir,
                   req, cleared, subsec, decoder, listVars>>

\* a file is removed; its directory gets the mtime d
Unlink(f, d) ==
    /\ Rescanning(ServeThread)
    /\ fsOps < MaxFsOps /\ fsOps' = fsOps + 1
    /\ fileStat[f].exists
    /\ fileStat' = [fileStat EXCEPT ![f] = NoFile]
    /\ dirStat' = [dirStat EXCEPT ![f.dir].mtime = d]
    /\ below' = (below \/ \E r \in Walked(ServeThread) :
                     /\ InSubtree(f.dir, r)
                     /\ get_folder_mtime(r)' <= loc[ServeThread].mtimes[r])
    /\ UNCHANGED <<now, folders, image_cache, leaf_folders_cache, threadVars,
                   captured, last, ret, optimizations, call, thumbs, thumbdir,
                   req, cleared, subsec, decoder, listVars>>

\* GET /api/images one request at a time; files are rewritten, created and
\* removed while a rescan is under way, the root is added between requests
NextRebuild ==
    \/ Start(ServeThread, "list", "")
    \/ g_load(ServeThread)
    \/ v_images(ServeThread)
    \/ v_ttl(ServeThread)
    \/ v_roots(ServeThread)
    \/ v_mtimes(ServeThread)
    \/ hit(ServeThread)
    \/ b_marks(ServeThread)
    \/ b_walk(ServeThread)
    \/ b_sort(ServeThread)
    \/ w_images(ServeThread)
    \/ w_time(ServeThread)
    \/ w_mtimes(ServeThread)
    \/ Finish(ServeThread)
    \/ \E f \in Mutable, m \in RescanMtimes : \E sz \in SizeChoices(f) : Rewrite(f, m, sz)
    \/ \E f \in Mutable, m \in RescanMtimes, d \in RescanMtimes :
          \E sz \in SizeChoices(f) : Create(f, m, sz, d)
    \/ \E f \in Mutable, d \in RescanMtimes : Unlink(f, d)
    \/ Tick
    \/ /\ At(ServeThread, "idle")
       /\ \E p \in ServeRoots : AddFolderReq(p)

SpecRebuild == Init /\ [][NextRebuild]_vars

(* ------------------- create_video_poster and ffmpeg -------------------- *)
\* how an ffmpeg process that was started ends if it is left alone: with
\* status 0, with another status, or not at all
DecoderRuns == {"exit0", "nonzero", "hang"}

posterRest == <<fsVars, folders, image_cache, leaf_folders_cache, loc, tag, seqVars,
                optimizations, call, thumbdir, cleared, subsec, below, listVars>>

\* create_video_poster lines 148-152 and 163-165: subprocess.run starts
\* ffmpeg; found: whether there is an ffmpeg to start (FileNotFoundError
\* otherwise); serve_video_poster lines 546-548
p_spawn(t, how, found) ==
    /\ At(t, "t_open")
    /\ req[t].route = "video-poster"
    /\ IF found
       THEN /\ decoder' = how
            /\ Goto(t, "p_run")
            /\ req' = [req EXCEPT ![t].touched = @ \cup {"generate"}]
       ELSE /\ Respond(t, [req[t] EXCEPT !.touched = @ \cup {"generate", "failed", "missing"}],
                       500, "")
            /\ UNCHANGED decoder
    /\ UNCHANGED <<posterRest, thumbs>>

\* ffmpeg opens its output (-y, line 143) while subprocess.run waits: the
\* file at the cache path is created or truncated
p_output(t) ==
    /\ At(t, "p_run")
    /\ decoder # "none"
    /\ LET c == req[t].target
       IN  /\ ~(c \in DOMAIN thumbs /\ thumbs[c].writer = t)
           /\ thumbs' = [x \in DOMAIN thumbs \cup {c} |->
                           IF x = c
                           THEN [complete |-> FALSE, writer |-> t,
                                 writes |-> IF c \in DOMAIN thumbs
                                            THEN thumbs[c].writes + 1 ELSE 1,
                                 of |-> SourceState(req[t].path)]
                           ELSE thumbs[x]]
    /\ UNCHANGED <<posterRest, threadVars, req, decoder>>

\* create_video_poster lines 154-158: ffmpeg has ended and subprocess.run
\* returns; a process that ends with status 0 has written its output whole if
\* it opened one. serve_video_poster lines 546-548
p_exit(t) ==
    /\ At(t, "p_run")
    /\ decoder \in {"exit0", "nonzero"}
    /\ decoder' = "none"
    /\ LET c == req[t].target
           mine == c \in DOMAIN thumbs /\ thumbs[c].writer = t
       IN  /\ thumbs' = IF mine
                        THEN [thumbs EXCEPT ![c].complete = (decoder = "exit0"),
                                            ![c].writer = 0]
                        ELSE thumbs
           /\ IF decoder = "exit0" /\ c \in DOMAIN thumbs
              THEN Goto(t, "t_send") /\ UNCHANGED req
              ELSE Respond(t, [req[t] EXCEPT !.touched =
                                  @ \cup {"failed"} \cup
                                    (IF decoder = "nonzero" THEN {"nonzero"} ELSE {})],
                           500, "")
    /\ UNCHANGED posterRest

\* faulty variant: subprocess.run is called without a timeout
p_timeout_Never(t) ==
    /\ FALSE
    /\ UNCHANGED vars

\* create_video_poster lines 151 and 160-162: ten seconds have passed;
\* subprocess.run kills ffmpeg and raises TimeoutExpired. serve_video_poster
\* lines 546-548
p_timeout(t) ==
    /\ At(t, "p_run")
    /\ decoder # "none"
    /\ decoder' = "none"
    /\ LET c == req[t].target
           mine == c \in DOMAIN thumbs /\ thumbs[c].writer = t
       IN  thumbs' = IF mine THEN [thumbs EXCEPT ![c].writer = 0] ELSE thumbs
    /\ Respond(t, [req[t] EXCEPT !.touched = @ \cup {"failed", "timeout"}], 500, "")
    /\ UNCHANGED posterRest

\* serve_video_poster lines 544-565: the steps from the look-up of the
\* cache path on
GenerationSteps(t) ==
    \/ t_exists(t)
    \/ \E how \in DecoderRuns, found \in BOOLEAN : p_spawn(t, how, found)
    \/ p_exit(t)
    \/ p_timeout(t)
    \/ t_send(t)

\* the steps of the handler of GET /video-poster
PosterSteps(t) ==
    \/ s_flag(t)
    \/ s_guard(t)
    \/ GenerationSteps(t)

\* GET /video-poster for the video and for the image, one request at a time
NextPoster ==
    \/ \E arg \in DeriveArgs : ServeStart(ServeThread, "video-poster", arg, None)
    \/ PosterSteps(ServeThread)
    \/ p_output(ServeThread)
    \/ ClearCacheReq({})
    \/ \E key \in DOMAIN DEFAULT_OPTIMIZATIONS, value \in BOOLEAN :
          UpdateSettingsReq(key, value)
    \/ \E p \in ServeRoots : AddFolderReq(p)

SpecPoster == Init /\ [][NextPoster]_vars

\* From the look-up of the cache path on, every statement of the handler is
\* executed once it is reached, and subprocess.run returns or raises ten
\* seconds after it was called at the latest.
SpecPosterLive == SpecPoster /\ WF_vars(GenerationSteps(ServeThread))

(* ------------------------- favorites and trash ------------------------- *)
\* data.get('path'): nothing, the files as plain paths, and the video as the
\* URL the frontend shows it under
MarkArgs ==
    {<<>>, FilePath(F1), FilePath(F2), FilePath(F3), <<"/image?path=">> \o QuotedVideo}

\* path_utils.extract_path_from_url lines 127-132
extract_path_from_url(url_path) ==
    unquote(IF url_path # <<>> /\ Head(url_path) \in {"/thumbnail?path=", "/image?path="}
            THEN Tail(url_path) ELSE url_path)

markRest == <<fsVars, folders, image_cache, leaf_folders_cache, threadVars, seqVars,
              optimizations, thumbs, thumbdir, req, cleared, subsec, below, decoder>>

\* the handler's answer
Marked(fn, arg, status) == call' = [fn |-> fn, arg |-> arg, status |-> status]

\* POST /api/favorites: add_favorite, favorites.py lines 37-55
add_favorite(arg) ==
    LET path == extract_path_from_url(arg)
    IN  /\ IF arg = <<>>
           THEN Marked("add_favorite", arg, 400) /\ UNCHANGED favorites
           ELSE /\ favorites' = IF path \in Range(favorites) THEN favorites
                                ELSE Append(favorites, path)
                /\ Marked("add_favorite", arg, 200)
        /\ UNCHANGED <<markRest, trash>>

\* DELETE /api/favorites: remove_favorite, favorites.py lines 58-76
remove_favorite(arg) ==
    LET path == extract_path_from_url(arg)
    IN  /\ IF arg = <<>>
           THEN Marked("remove_favorite", arg, 400) /\ UNCHANGED favorites
           ELSE /\ favorites' = RemoveFirst(favorites, path)
                /\ Marked("remove_favorite", arg, 200)
        /\ UNCHANGED <<markRest, trash>>

\* POST /api/trash: add_trash, trash.py lines 38-62; the path is taken from
\* the favorites only when it is new to the trash
add_trash(arg) ==
    LET path == extract_path_from_url(arg)
    IN  /\ IF arg = <<>>
           THEN Marked("add_trash", arg, 400) /\ UNCHANGED <<favorites, trash>>
           ELSE /\ Marked("add_trash", arg, 200)
                /\ IF path \in Range(trash)
                   THEN UNCHANGED <<favorites, trash>>
                   ELSE /\ trash' = Append(trash, path)
                        /\ favorites' = RemoveFirst(favorites, path)
        /\ UNCHANGED markRest

\* DELETE /api/trash: remove_trash, trash.py lines 65-83
remove_trash(arg) ==
    LET path == extract_path_from_url(arg)
    IN  /\ IF arg = <<>>
           THEN Marked("remove_trash", arg, 400) /\ UNCHANGED trash
           ELSE /\ trash' = RemoveFirst(trash, path)
                /\ Marked("remove_trash", arg, 200)
        /\ UNCHANGED <<markRest, favorites>>

\* the four requests with every argument, one at a time; both lists start
\* empty
NextMarks ==
    \/ \E arg \in MarkArgs : add_favorite(arg)
    \/ \E arg \in MarkArgs : remove_favorite(arg)
    \/ \E arg \in MarkArgs : add_trash(arg)
    \/ \E arg \in MarkArgs : remove_trash(arg)

SpecMarks == Init /\ [][NextMarks]_vars

(* ============================== claims ================================ *)
\* The notions the claims are stated in, taken from the history variables.
SnapshotPresent == image_cache.images # None
SnapshotAge == now - captured.time
SameRoots == Range(folders) = captured.roots
NoRootAboveWatermark ==
    \A r \in Range(folders) :
        get_folder_mtime(r) <= (IF r \in captured.roots THEN captured.hw[r] ELSE 0)
\* a root that is a directory has f somewhere below it
UnderRoot(f) == \E r \in Range(folders) : IsDir(r) /\ InSubtree(f.dir, r)
Answered(op) == last.op = op
\* the folders and item counts of a list of aggregates
FolderCounts(aggs) == {<<aggs[i].path, aggs[i].count>> : i \in 1..Len(aggs)}

\* C1 (as amended): get_all_images() answers from the cache only if the
\* snapshot's age is at most CACHE_TTL, the configured roots are the ones
\* captured and no root's live high-watermark exceeds the captured one;
\* otherwise it rescans and replaces the snapshot.
C1_CachedOnlyWhileValid ==
    Answered("list") =>
        IF last.hit
        THEN /\ SnapshotAge <= CACHE_TTL
             /\ SameRoots
             /\ NoRootAboveWatermark
        ELSE /\ captured = CaptureOf(folders)
             /\ image_cache.timestamp = now
             /\ image_cache.images = Some(last.val)

\* C1 as stated: the age is below CACHE_TTL whenever the cache answers.
C1_AsStated ==
    Answered("list") /\ last.hit =>
        /\ SnapshotAge < CACHE_TTL
        /\ SameRoots
        /\ NoRootAboveWatermark

\* a call answered from a snapshot exactly CACHE_TTL old
C1_Witness == Answered("list") /\ last.hit /\ SnapshotAge = CACHE_TTL

\* C2 as stated: get_leaf_folders() only answers with the aggregates of a
\* snapshot that is valid when it answers.
C2_LeafFromValidSnapshot ==
    Answered("leaf") =>
        /\ SnapshotPresent
        /\ SnapshotAge <= CACHE_TTL
        /\ SameRoots
        /\ NoRootAboveWatermark
        /\ FolderCounts(last.val) = FolderCounts(FolderAggregates(image_cache.images[1]))

\* what a listing derived from the configured roots is, in the filesystem as
\* it stands
ListingOf(cfg) == SortNewestFirst(WalkAll(cfg))
DerivedFrom(op, cfg) ==
    IF op = "leaf" THEN FolderAggregates(ListingOf(cfg)) ELSE ListingOf(cfg)

\* C3: under any interleaving of listing requests, rescans and invalidations,
\* a get_all_images() call that is answered from the cache has read the item
\* list, the capture timestamp and the high-watermark map as one rescan wrote
\* them: none of the three is cleared and all three carry the same writer.
C3_ReadersSeeOneBuild ==
    \A t \in Threads :
        loc[t].hit =>
            /\ loc[t].seen.images # 0
            /\ loc[t].seen.images = loc[t].seen.timestamp
            /\ loc[t].seen.timestamp = loc[t].seen.folder_mtimes

\* C4: a get_all_images() or get_leaf_folders() call that starts when no
\* add_folder or remove_folder request is in progress, and during which none
\* starts, returns the listing (the aggregates) derived from the roots that
\* are configured then, whatever other listing requests were doing meanwhile.
C4_ListingAfterChange ==
    \A t \in Threads :
        (At(t, "done") /\ loc[t].op \in ListingOps /\ loc[t].quiet) =>
            loc[t].result = Some(DerivedFrom(loc[t].op, folders))

\* C5: a call made when the snapshot is older than CACHE_TTL rebuilds, and
\* no call returns a snapshot older than CACHE_TTL.
C5_ExpiredSnapshotRebuilt ==
    Answered("list") =>
        /\ SnapshotAge <= CACHE_TTL
        /\ (last.had /\ last.age > CACHE_TTL) => (~last.hit /\ captured.time = now)

C5_Witness == Answered("list") /\ last.had /\ last.age > CACHE_TTL

\* C6 as stated: a call that directly follows an increase of the mtime of a
\* file below a configured root rebuilds.
C6_AsStated ==
    (Answered("list") /\ last.had /\ last.after.op = "write"
        /\ last.after.raised /\ last.after.under)
    => ~last.hit

\* C6 (as amended): a call that directly follows an increase of a file's
\* mtime to above the high-watermark captured for a configured root that
\* contains the file rebuilds, also within the TTL.
C6_RaiseAboveWatermarkRebuilds ==
    (Answered("list") /\ last.had /\ last.after.op = "write"
        /\ last.after.raised /\ last.after.above)
    => ~last.hit

C6_Witness ==
    /\ Answered("list") /\ last.had /\ last.after.op = "write"
    /\ last.after.raised /\ last.after.above
    /\ last.age <= CACHE_TTL

\* C7: with the roots and the filesystem unchanged since the previous call,
\* a get_all_images() call made while the snapshot is at most CACHE_TTL old
\* returns the sequence the previous call returned.
C7_SameListing ==
    (Answered("list") /\ last.prev # None /\ last.had /\ last.age <= CACHE_TTL)
    => last.val = last.prev[1]

\* two calls within the TTL, the second answered from the cache, with at
\* least two items to order
C7_Witness ==
    /\ Answered("list") /\ last.prev # None /\ last.hit
    /\ Len(last.val) >= 2

\* C8 as stated: with the roots and the filesystem unchanged since the
\* previous call and the snapshot at most CACHE_TTL old, get_all_images()
\* does not rescan.
C8_NoRescanWithinTtl ==
    (Answered("list") /\ last.prev # None /\ last.had /\ last.age <= CACHE_TTL)
    => last.hit

\* C9: invalidate_cache() leaves the snapshot and the folder aggregates
\* cleared, and a call that finds no snapshot rebuilds from the roots and
\* the filesystem as they are, whatever the time.
C9_InvalidateThenRebuild ==
    /\ (Answered("add") \/ Answered("remove")) =>
          /\ image_cache = Cleared
          /\ leaf_folders_cache = <<>>
    /\ (Answered("list") /\ ~last.had) =>
          /\ ~last.hit
          /\ image_cache.timestamp = now
          /\ \A f \in FileUniverse :
                (fileStat[f].exists /\ UnderRoot(f) /\ Listed(f))
                    => f \in Range(last.val)

\* a file created right after an invalidation is in the next listing
C9_Witness ==
    /\ Answered("list") /\ ~last.had
    /\ last.after.op = "write"
    /\ last.after.created /\ last.after.invalidated
    /\ last.after.file \in Range(last.val)

\* C10: a rebuilt snapshot holds exactly the files below the configured
\* roots with a supported suffix, except the videos over MAX_VIDEO_SIZE.
C10_SnapshotContents ==
    (Answered("list") /\ ~last.hit) =>
        Range(last.val) =
            {f \in FileUniverse :
                /\ fileStat[f].exists
                /\ UnderRoot(f)
                /\ Lower(f.suffix) \in SUPPORTED_FORMATS
                /\ ~(Lower(f.suffix) \in VIDEO_FORMATS
                        /\ fileStat[f].size > MAX_VIDEO_SIZE)}

\* a rebuild that keeps a video of exactly MAX_VIDEO_SIZE and leaves out a
\* file with an unsupported suffix
C10_Witness ==
    /\ Answered("list") /\ ~last.hit
    /\ F2 \in Range(last.val) /\ fileStat[F2].size = MAX_VIDEO_SIZE
    /\ fileStat[F3].exists /\ UnderRoot(F3) /\ F3 \notin Range(last.val)

\* C11: the sequence get_all_images() returns is ordered newest first by the
\* mtimes the files had when the snapshot was captured: of two adjacent
\* items the earlier one's mtime is at least the later one's.
C11_NewestFirst ==
    Answered("list") =>
        \A i \in 1..(Len(last.val) - 1) :
            captured.mt[last.val[i]] >= captured.mt[last.val[i + 1]]

\* a listing of two files whose order differs from the order of the walk
C11_Witness ==
    /\ Answered("list")
    /\ last.val = <<F2, F1>>
    /\ captured.mt[F2] > captured.mt[F1]

\* C12: the sort parameter only decides the final order. With sort=oldest
\* the response is the listing in reverse, with any other value it is the
\* listing as it is, and afterwards the cache still holds the snapshot that
\* get_all_images() returned, newest first.
C12_SortOnlyReverses ==
    (last.op = "images" \/ (last.op = "by_folder" /\ last.status = 200)) =>
        LET shown == IF last.op = "images" THEN last.val ELSE last.items
            n == Len(shown)
        IN  /\ Len(last.resp) = n
            /\ \A i \in 1..n :
                  last.resp[i] = format_image_url(
                      shown[IF last.sort = "oldest" THEN n + 1 - i ELSE i])
            /\ image_cache.images = Some(last.val)
            /\ \A i \in 1..(Len(last.val) - 1) :
                  captured.mt[last.val[i]] >= captured.mt[last.val[i + 1]]

\* a sort=oldest listing of two different files
C12_Witness ==
    /\ last.op = "images" /\ last.sort = "oldest"
    /\ Len(last.val) = 2 /\ last.val[1] # last.val[2]
    /\ last.resp[1] = format_image_url(last.val[2])

\* C13: get_images_by_folder(folder) returns exactly the items of the
\* get_all_images() listing whose parent directory is the string folder, each
\* as often as it is listed and in the listing's order; items of subfolders
\* are left out.
C13_ByFolderExact ==
    (last.op = "by_folder" /\ last.status = 200) =>
        LET Times(seq, f) == Cardinality({i \in 1..Len(seq) : seq[i] = f})
        IN  /\ \A i \in 1..Len(last.items) :
                  Chars(last.items[i].dir) = last.folder
            /\ \A f \in FileUniverse :
                  Times(last.items, f) =
                      IF Chars(f.dir) = last.folder THEN Times(last.val, f) ELSE 0
            /\ \E g \in [1..Len(last.items) -> 1..Len(last.val)] :
                  /\ \A i \in 1..Len(last.items) : last.val[g[i]] = last.items[i]
                  /\ \A i \in 1..(Len(last.items) - 1) : g[i] < g[i + 1]

\* the listing holds a file of /a and one of /a/s; only the first is returned
C13_Witness ==
    /\ last.op = "by_folder" /\ last.status = 200
    /\ last.folder = <<"/", "a">>
    /\ F2 \in Range(last.val)
    /\ last.items = <<F1>>

\* C14: a get_leaf_folders() result that was just computed has one entry for
\* each parent folder of the snapshot's items and no other; an entry's count
\* is the number of snapshot items in that folder, so no count is 0 and the
\* counts add up to the length of the snapshot; its newest_mtime is the
\* largest mtime of those items that are on disk.
C14_LeafAggregates ==
    (Answered("leaf") /\ ~last.hit) =>
        LET snap == image_cache.images[1]
            aggs == last.val
            Of(d) == {j \in 1..Len(snap) : snap[j].dir = d}
            Live(d) == {fileStat[snap[j]].mtime : j \in {k \in Of(d) : fileStat[snap[k]].exists}}
        IN  /\ {aggs[i].path : i \in 1..Len(aggs)} = {snap[j].dir : j \in 1..Len(snap)}
            /\ \A i, k \in 1..Len(aggs) : aggs[i].path = aggs[k].path => i = k
            /\ \A i \in 1..Len(aggs) :
                  /\ aggs[i].count = Cardinality(Of(aggs[i].path))
                  /\ aggs[i].count > 0
                  /\ Live(aggs[i].path) # {} =>
                        /\ aggs[i].newest_mtime \in Live(aggs[i].path)
                        /\ \A m \in Live(aggs[i].path) : m <= aggs[i].newest_mtime
            /\ Len(snap) = Cardinality(UNION {Of(aggs[i].path) : i \in 1..Len(aggs)})

\* two folders, one of them with two items
C14_Witness ==
    /\ Answered("leaf") /\ ~last.hit
    /\ Len(last.val) = 2
    /\ \E i \in 1..2 : last.val[i].count = 2 /\ last.val[i].newest_mtime > 0

C17_Idempotent ==
    call.fn = "normalize_path" => call.again = call.out

\* C18 as stated: the same inputs give the same cache path, and inputs that
\* differ in path, mtime, size, version or kind are fed to the hash as
\* different strings and give different cache paths.
C18_AsStated ==
    call.fn = "get_thumbnail_path" =>
        /\ call.a = call.b => call.outA = call.outB
        /\ call.a # call.b => call.fedA # call.fedB /\ call.outA # call.outB

\* C18 (as amended): the same inputs give the same cache path; inputs that
\* differ in path, mtime, size or version are fed to the hash as different
\* strings; inputs that differ in the kind only are fed to the hash as the
\* same string; different inputs always give different cache paths.
C18_KeyFunction ==
    call.fn = "get_thumbnail_path" =>
        LET Source(in) == <<in.path, in.mtime, in.size, in.version>>
        IN  /\ call.a = call.b => call.outA = call.outB
            /\ Source(call.a) # Source(call.b) => call.fedA # call.fedB
            /\ Source(call.a) = Source(call.b) => call.fedA = call.fedB
            /\ call.a # call.b => call.outA # call.outB

\* the path "a1" with mtime 1 against the path "a" with mtime 11
C18_Witness ==
    /\ call.fn = "get_thumbnail_path"
    /\ call.a.path = <<"a", "1">> /\ call.a.mtime = 1
    /\ call.b.path = <<"a">> /\ call.b.mtime = 11
    /\ call.a.size = call.b.size /\ call.a.version = call.b.version
    /\ call.fedA # call.fedB

\* p is a root or lies below one, segment by segment
UnderRoots(p, roots) ==
    \E i \in 1..Len(roots) :
        LET root == normalize_path(Chars(roots[i]))
        IN  p = root \/ StartsWith(p, root \o <<"/">>)

\* C16: a media request without a path is answered 400; a request for a path
\* outside the configured roots is answered 403 whether or not the file
\* exists; and only a file under a configured root is looked for, stat-ed or
\* read. (A /video-poster request made while the poster setting is off is
\* answered 403 before its path is read; that answer is not judged here.)
C16_GuardBeforeDisk ==
    \A t \in Threads :
        LET r == req[t]
            asked == normalize_path(unquote(r.arg))
        IN  /\ r.status # 0 /\ r.body # "disabled" /\ r.arg = <<>> => r.status = 400
            /\ r.status # 0 /\ r.arg # <<>> /\ ~UnderRoots(asked, r.checked) =>
                   r.status = 403
            /\ r.touched # {} => UnderRoots(r.path, r.checked)

\* C19: once the cache file of a key has been created, no request opens it
\* for writing again until DELETE /api/cache removes it.
C19_CreatedOnce == \A c \in DOMAIN thumbs : thumbs[c].writes <= 1

\* C20: no /thumbnail request sends the file at a cache path while its
\* content is incomplete.
C20_NeverServedIncomplete ==
    \A t \in Threads : req[t].asked = "thumbnail" => req[t].body # "incomplete"

\* the last /thumbnail request of the thread that serves one request at a
\* time, the thumbnails in THUMBNAIL_DIR and the headers of a derivative
Thumbnailed == req[ServeThread].asked = "thumbnail"
Thumbnails == {c \in DOMAIN thumbs : c.ext = ".webp"}
Immutable == "public, max-age=604800, immutable"
IssuedETag(r) == ThumbETag(r.path, ServeStat(r.path))

\* C21: with one request at a time and an unchanged source, a thumbnail
\* request that finds no cache file makes THUMBNAIL_DIR if it is absent,
\* generates the cache file of that source state and answers 200 with an
\* immutable Cache-Control and the thumbnail's ETag; the cache file is never
\* generated again while it exists (later requests send it as it is), and a
\* request whose If-None-Match equals the issued ETag is answered 304 without
\* making the directory, generating or sending a derivative. (The request
\* ends in 500 only when DELETE /api/cache removed the file under it.)
C21_GeneratedOnceThenReused ==
    LET r == req[ServeThread]
    IN  /\ \A c \in Thumbnails : thumbs[c].writes = 1
        /\ \A c \in Thumbnails :
              \E a \in ServeArgs \ {<<>>} :
                  c = DerivativeOf(normalize_path(unquote(a)), "thumbnail")
        /\ Thumbnails # {} => thumbdir
        /\ Thumbnailed /\ r.route = "thumbnail" /\ r.status \notin {0, 400, 403, 404} =>
              IF r.inm = Some(IssuedETag(r))
              THEN /\ r.status = 304
                   /\ r.body = ""
                   /\ r.touched \cap {"mkdir", "generate", "sent"} = {}
                   /\ r.target = NoTarget
              ELSE /\ thumbdir
                   /\ r.status \in {200, 500}
                   /\ r.status = 200 =>
                         /\ r.body = "derivative"
                         /\ r.cache_control = Immutable
                         /\ r.etag = IssuedETag(r)
                         /\ "sent" \in r.touched
                   /\ r.status = 500 => r.target \notin DOMAIN thumbs

\* the thumbnail of the image was generated by an earlier request and is in
\* the cache; the request that came with the issued ETag got 304
C21_Witness ==
    /\ Thumbnailed
    /\ req[ServeThread].path = FilePath(F1)
    /\ req[ServeThread].inm = Some(IssuedETag(req[ServeThread]))
    /\ req[ServeThread].status = 304
    /\ DerivativeOf(FilePath(F1), "thumbnail") \in DOMAIN thumbs
    /\ thumbs[DerivativeOf(FilePath(F1), "thumbnail")].complete
    /\ thumbs[DerivativeOf(FilePath(F1), "thumbnail")].writes = 1

\* the status, body and headers a request was answered with, and what
\* GET /image answers to the same request while the roots are r.checked
Given(r) ==
    [status |-> r.status, body |-> r.body, cache_control |-> r.cache_control,
     etag |-> r.etag]
ImageWouldGive(r) ==
    LET path == normalize_path(unquote(r.arg))
        st == ServeStat(path)
        plain == [status |-> 0, body |-> "", cache_control |-> "", etag |-> <<>>]
        full == serve_image(path, st, None, [inm |-> r.inm, ims |-> None])
    IN  IF r.arg = <<>> THEN [plain EXCEPT !.status = 400]
        ELSE IF ~\E i \in 1..Len(r.checked) :
                    StartsWith(path, normalize_path(Chars(r.checked[i])))
        THEN [plain EXCEPT !.status = 403]
        ELSE IF ~st.exists THEN [plain EXCEPT !.status = 404]
        ELSE [status |-> full.status, body |-> full.body,
              cache_control |-> full.cache_control, etag |-> full.etag]

\* C22: a /thumbnail request whose thumbnail could not be generated is
\* answered as GET /image answers the same request, with the original and
\* never with a derivative; a /video-poster request whose poster could not be
\* generated is answered 500 and sends no file.
C22_FailedGeneration ==
    LET r == req[ServeThread]
    IN  r.status # 0 /\ "failed" \in r.touched =>
            /\ "sent" \notin r.touched
            /\ IF r.asked = "thumbnail"
               THEN /\ Given(r) = ImageWouldGive(r)
                    /\ r.status \in {200, 304}
                    /\ r.status = 200 => r.body = "original"
               ELSE /\ r.asked = "video-poster"
                    /\ r.status = 500
                    /\ r.body = ""

\* the thumbnail of the image could not be made and the image itself was sent
C22_Witness ==
    /\ req[ServeThread].asked = "thumbnail"
    /\ req[ServeThread].path = FilePath(F1)
    /\ "failed" \in req[ServeThread].touched
    /\ req[ServeThread].status = 200
    /\ req[ServeThread].body = "original"
    /\ req[ServeThread].cache_control = Immutable

\* C23: a /thumbnail request that finds thumbnail_cache switched off is
\* answered exactly as GET /image answers the same request and makes neither
\* THUMBNAIL_DIR nor a cache file; a /video-poster request that finds
\* video_poster_cache switched off is answered 403 'Video poster optimization
\* disabled' without touching any file; both settings are off by default.
C23_FlagOff ==
    LET r == req[ServeThread]
    IN  /\ ~DEFAULT_OPTIMIZATIONS.thumbnail_cache
        /\ ~DEFAULT_OPTIMIZATIONS.video_poster_cache
        /\ r.status # 0 /\ r.flag = "off" =>
              /\ r.touched \cap {"mkdir", "generate", "sent"} = {}
              /\ r.target = NoTarget
              /\ IF r.asked = "thumbnail"
                 THEN Given(r) = ImageWouldGive(r)
                 ELSE /\ r.asked = "video-poster"
                      /\ r.status = 403
                      /\ r.body = "disabled"
                      /\ r.touched = {}

\* with the settings as they are by default, the image was asked for as a
\* thumbnail and sent as it is; nothing is in THUMBNAIL_DIR, which is not there
C23_Witness ==
    /\ optimizations = DEFAULT_OPTIMIZATIONS
    /\ req[ServeThread].asked = "thumbnail"
    /\ req[ServeThread].flag = "off"
    /\ req[ServeThread].path = FilePath(F1)
    /\ req[ServeThread].status = 200
    /\ req[ServeThread].body = "original"
    /\ ~thumbdir
    /\ thumbs = NoThumbs

\* C24: create_thumbnail is never called for a source whose extension is a
\* GIF or video format: a /thumbnail request for such a path is answered as
\* GET /image answers it, with the original when the file is there and
\* allowed, and no cache file of such a source exists.
C24_AnimatedNeverThumbnailed ==
    LET r == req[ServeThread]
        asked == normalize_path(unquote(r.arg))
    IN  /\ \A a \in ServeArgs \ {<<>>} :
              ServeSuffix(normalize_path(unquote(a))) \in GIF_FORMATS \cup VIDEO_FORMATS =>
                  DerivativeOf(normalize_path(unquote(a)), "thumbnail") \notin DOMAIN thumbs
        /\ /\ r.asked = "thumbnail"
           /\ r.arg # <<>>
           /\ ServeSuffix(asked) \in GIF_FORMATS \cup VIDEO_FORMATS
           => /\ "generate" \notin r.touched
              /\ r.target = NoTarget
              /\ r.status # 0 =>
                    /\ Given(r) = ImageWouldGive(r)
                    /\ r.status \in {200, 403, 404}
                    /\ r.status = 200 => r.body = "original"

\* thumbnail_cache is on and the animation was asked for as a thumbnail: it
\* was sent as it is
C24_Witness ==
    /\ req[ServeThread].asked = "thumbnail"
    /\ req[ServeThread].flag = "on"
    /\ req[ServeThread].path = FilePath(GifFile)
    /\ req[ServeThread].status = 200
    /\ req[ServeThread].body = "original"

\* a served range request: the Range header, the file size, what the parser
\* made of the header and the response
RangeServed == call.fn = "serve_image" /\ call.r.range # None

\* C25: whenever _parse_range_header accepts a Range header for a file of size
\* N, 0 <= start <= end <= N-1, and the response is 206 with Content-Range
\* "bytes start-end/N", Accept-Ranges: bytes and a body of exactly
\* end-start+1 bytes read from offset start.
C25_AcceptedRange ==
    RangeServed /\ call.parsed # None =>
        LET n == call.r.st.size
            start == call.parsed[1].start
            end == call.parsed[1].end
        IN  /\ 0 <= start /\ start <= end /\ end <= n - 1
            /\ call.resp.status = 206
            /\ call.resp.content_range =
                   <<"bytes", " ">> \o Digits(start) \o <<"-">> \o Digits(end)
                       \o <<"/">> \o Digits(n)
            /\ call.resp.accept_ranges = "bytes"
            /\ call.resp.body = "range"
            /\ call.resp.offset = start
            /\ call.resp.length = end - start + 1

\* "bytes=1-22" on a file of 3 bytes: the end is clamped to 2
C25_Witness ==
    /\ RangeServed
    /\ call.r.range = Some(<<"bytes=", "1", "-", "2", "2">>)
    /\ call.r.st.size = 3
    /\ call.parsed = Some([start |-> 1, end |-> 2])
    /\ call.resp.status = 206

\* The first range of the header read by the grammar "start-end", "start-",
\* "-suffix", a number being decimal digits with blanks around them at most:
\* whether it is one of the three forms, the suffix length k, and the start
\* and end it asks for in a file of n bytes.
AskedRange(header, n) ==
    LET first == strip(split(strip(Tail(header)), ",")[1])
        parts == split(first, "-")
        IsNumber(t) ==
            strip(t) # <<>> /\ \A i \in 1..Len(strip(t)) : strip(t)[i] \in {"0", "1", "2"}
        form == IF header[1] # "bytes=" \/ Len(parts) # 2 THEN "none"
                ELSE IF IsNumber(parts[1]) /\ IsNumber(parts[2]) THEN "explicit"
                ELSE IF IsNumber(parts[1]) /\ parts[2] = <<>> THEN "open"
                ELSE IF parts[1] = <<>> /\ IsNumber(parts[2]) THEN "suffix"
                ELSE "none"
    IN  [form |-> form,
         k |-> IF form = "suffix" THEN DigitsValue(strip(parts[2])) ELSE 0,
         start |-> CASE form = "suffix" -> Max(0, n - DigitsValue(strip(parts[2])))
                     [] form \in {"explicit", "open"} -> DigitsValue(strip(parts[1]))
                     [] OTHER -> 0,
         end |-> IF form = "explicit" THEN DigitsValue(strip(parts[2])) ELSE n - 1]

C27_AsStated ==
    RangeServed =>
        LET n == call.r.st.size
            asked == AskedRange(call.r.range[1], n)
        IN  /\ asked.form = "suffix" /\ asked.k >= 1 =>
                call.parsed = Some([start |-> Max(0, n - asked.k), end |-> n - 1])
            /\ asked.form = "open" /\ asked.start < n =>
                call.parsed = Some([start |-> asked.start, end |-> n - 1])

\* C27 (as amended): for a file of size N >= 1, "bytes=-k" with k >= 1 selects
\* the last min(k, N) bytes, start = max(0, N-k) and end = N-1, and "bytes=s-"
\* with s < N selects start = s and end = N-1; on an empty file a suffix
\* range is rejected.
C27_SuffixAndOpenEnded ==
    RangeServed =>
        LET n == call.r.st.size
            asked == AskedRange(call.r.range[1], n)
        IN  /\ asked.form = "suffix" /\ asked.k >= 1 /\ n >= 1 =>
                /\ call.parsed = Some([start |-> Max(0, n - asked.k), end |-> n - 1])
                /\ call.resp.offset = n - Min(asked.k, n)
                /\ call.resp.length = Min(asked.k, n)
            /\ asked.form = "suffix" /\ n = 0 => call.parsed = None
            /\ asked.form = "open" /\ asked.start < n =>
                /\ call.parsed = Some([start |-> asked.start, end |-> n - 1])
                /\ call.resp.length = n - asked.start

\* "bytes=-22" on a file of 3 bytes gives all 3 bytes
C27_Witness ==
    /\ RangeServed
    /\ call.r.range = Some(<<"bytes=", "-", "2", "2">>)
    /\ call.r.st.size = 3
    /\ call.parsed = Some([start |-> 0, end |-> 2])
    /\ call.resp.length = 3

\* C28: when the Range header lists several ranges separated by commas, the
\* response is the one the same request gets with the first range alone.
C28_FirstRangeOnly ==
    RangeServed /\ (\E i \in 1..Len(call.r.range[1]) : call.r.range[1][i] = ",") =>
        LET alone == split(call.r.range[1], ",")[1]
        IN  call.resp = serve_image(call.r.path, call.r.st, Some(alone), call.r.v)

\* "bytes=0-0,2" on a file of 3 bytes: the first byte, whatever follows
C28_Witness ==
    /\ RangeServed
    /\ call.r.range = Some(<<"bytes=", "0", "-", "0", ",", "2">>)
    /\ call.r.st.size = 3
    /\ call.resp.status = 206
    /\ call.resp.offset = 0
    /\ call.resp.length = 1

\* C29: every response to a request for an existing, allowed video carries
\* Accept-Ranges: bytes, be it 200, 206 or 416.
C29_VideoAcceptRanges ==
    call.fn = "serve_image" /\ ServeSuffix(call.r.path) \in VIDEO_FORMATS =>
        call.resp.accept_ranges = "bytes"

\* a served whole-file request and whether its validators match the file
WholeServed == call.fn = "serve_image" /\ call.r.range = None
Matches ==
    \/ call.r.v.inm = Some(ImageETag(call.r.path, call.r.st))
    \/ /\ call.r.v.ims # None
       /\ call.r.v.ims[1].parsed
       /\ call.r.v.ims[1].time >= call.r.st.mtime
SevenDays == {"public, max-age=604800", "public, max-age=604800, immutable"}

\* C30 as stated: for an original of any media kind, a whole-file request
\* whose If-None-Match equals the current ETag or whose If-Modified-Since is
\* not earlier than the mtime is answered 304 with an empty body; otherwise
\* the full body is returned with a 7-day Cache-Control.
C30_AsStated ==
    WholeServed =>
        IF Matches
        THEN call.resp.status = 304 /\ call.resp.length = 0
        ELSE /\ call.resp.status = 200
             /\ call.resp.length = call.r.st.size
             /\ call.resp.cache_control \in SevenDays

\* C30 (as amended): the statement holds for originals that are not videos.
\* For a video serve_image tests no validator: a whole-file request whose
\* If-None-Match equals the current ETag is answered 200 with the full body
\* and a 7-day Cache-Control.
C30_ConditionalImages ==
    WholeServed =>
        IF ServeSuffix(call.r.path) \notin VIDEO_FORMATS
        THEN IF Matches
             THEN call.resp.status = 304 /\ call.resp.length = 0 /\ call.resp.body = ""
             ELSE /\ call.resp.status = 200
                  /\ call.resp.length = call.r.st.size
                  /\ call.resp.cache_control = "public, max-age=604800, immutable"
        ELSE call.r.v.inm = Some(ImageETag(call.r.path, call.r.st)) =>
                 /\ call.resp.status = 200
                 /\ call.resp.length = call.r.st.size
                 /\ call.resp.cache_control = "public, max-age=604800"

\* an image whose If-Modified-Since is exactly its mtime, without If-None-Match
C30_Witness ==
    /\ WholeServed
    /\ call.r.path = FilePath(F1)
    /\ call.r.v.inm = None
    /\ call.r.v.ims = Some([parsed |-> TRUE, time |-> call.r.st.mtime])
    /\ call.resp.status = 304

\* C31: DELETE /api/cache tries to remove every file of THUMBNAIL_DIR: the
\* files that remain are the ones in its error list, deleted_count plus the
\* number of errors is the number of files it came upon, and the snapshot of
\* the media index and the cache of folder aggregates are left as they were.
C31_ClearAll ==
    [][(\E failing \in SUBSET DOMAIN thumbs : ClearCacheReq(failing)) =>
          /\ cleared'.deleted_count + Cardinality(cleared'.errors)
                 = Cardinality(DOMAIN thumbs)
          /\ cleared'.deleted_count = Cardinality(DOMAIN thumbs \ DOMAIN thumbs')
          /\ cleared'.errors = DOMAIN thumbs'
          /\ cleared'.errors \subseteq DOMAIN thumbs
          /\ UNCHANGED <<image_cache, leaf_folders_cache>>]_vars

\* one derivative was deleted and one could not be, while the snapshot and
\* the folder aggregates are in their caches
C31_Witness ==
    /\ cleared.deleted_count = 1
    /\ Cardinality(cleared.errors) = 1
    /\ DOMAIN thumbs = cleared.errors
    /\ SnapshotPresent
    /\ leaf_folders_cache # <<>>

C36_FreshAfterModification ==
    LET r == req[ServeThread]
    IN  r.asked = "thumbnail" /\ r.route = "thumbnail" /\ r.status # 0 =>
            /\ r.status = 304 /\ r.inm_src # NoSource => r.inm_src = r.src
            /\ r.body = "derivative" => r.sent_src = r.src

\* C33: a get_all_images() call during which a file under a root is deleted,
\* at whatever point of the rescan, still returns a list, and a call that
\* rescanned has installed the list it returns as the snapshot.
C33_RescanSurvivesLostFile ==
    LET t == ServeThread
    IN  At(t, "done") /\ loc[t].op = "list" =>
            /\ loc[t].result # None
            /\ ~loc[t].hit => image_cache.images = loc[t].result

\* C38: a get_all_images() call that is answered from the snapshot returns
\* the listing of the files as they are, when files only change while a
\* rescan is under way: a change made during the rescan is in the snapshot,
\* or the next call finds the snapshot invalid.
C38_ChangeDuringRescan ==
    LET t == ServeThread
    IN  At(t, "done") /\ loc[t].op = "list" /\ loc[t].hit =>
            loc[t].result = Some(ListingOf(folders))

\* C38 (amended): when every change made to a walked root during the rescan
\* left the root's high-watermark above the one the rescan recorded, a call
\* answered from the snapshot returns the listing of the files as they are.
C38_RaisingChangeDuringRescan ==
    LET t == ServeThread
    IN  At(t, "done") /\ loc[t].op = "list" /\ loc[t].hit /\ ~below =>
            loc[t].result = Some(ListingOf(folders))

\* a call is answered from a snapshot whose rescan saw two changes, none of
\* them below the recorded high-watermark
C38_Witness ==
    LET t == ServeThread
    IN  /\ At(t, "done") /\ loc[t].op = "list" /\ loc[t].hit /\ ~below
        /\ fsOps = MaxFsOps
        /\ loc[t].result = Some(ListingOf(folders))


\* the decoder failures of a poster request
DecoderFailures == {"timeout", "missing", "nonzero"}

\* C34: a poster request that has come to generating the poster always ends,
\* and one during which ffmpeg ran into the timeout, was not found or ended
\* with a nonzero status ends with the failure response 500.
C34_PosterTerminates ==
    /\ (req[ServeThread].asked = "video-poster" /\
        pc[ServeThread] \in {"t_exists", "t_open", "p_run", "t_send"})
          ~> At(ServeThread, "idle")
    /\ [](At(ServeThread, "idle") /\
          req[ServeThread].touched \cap DecoderFailures # {} =>
              req[ServeThread].status = 500)

\* a poster request has ended with 500 after ffmpeg was killed at the timeout
C34_Witness ==
    /\ At(ServeThread, "idle")
    /\ "timeout" \in req[ServeThread].touched
    /\ req[ServeThread].status = 500
    /\ decoder = "none"

\* C37: after a poster generation that failed there is no file at the
\* poster's cache path, and no request is sent a file that was not written
\* whole.
C37_FailureLeavesNoFile ==
    LET r == req[ServeThread]
    IN  /\ At(ServeThread, "idle") /\ "failed" \in r.touched => ~Cached(r.target)
        /\ r.body # "incomplete"


\* C39: the snapshot get_all_images() installs and returns holds no path more
\* than once, whatever roots add_folder has stored, and no leaf-folder count
\* exceeds the number of files of that folder.
C39_NoPathTwice ==
    /\ image_cache.images # None =>
          LET images == image_cache.images[1]
          IN  \A i, j \in 1..Len(images) : images[i] = images[j] => i = j
    /\ \A k \in 1..Len(leaf_folders_cache) :
          leaf_folders_cache[k].count <=
              Cardinality({f \in FileUniverse : f.dir = leaf_folders_cache[k].path})


\* the statements of invalidate_cache
Invalidating == {"i_images", "i_time", "i_mtimes", "i_leaf"}

\* C35: in add_folder and remove_folder the new root list is stored before
\* invalidate_cache() starts; a request that stores a root list goes on to
\* invalidate_cache(), and a request that stores none (a rejected add, a
\* remove of a folder that is not configured) ends without touching the
\* caches.
C35_StoreThenInvalidate ==
    [][\A t \in Threads :
          /\ pc[t] = "save" /\ pc'[t] # "save" =>
                pc'[t] = "i_images" /\ folders' = loc[t].cfg
          /\ pc[t] # "i_images" /\ pc'[t] = "i_images" => pc[t] = "save"
          /\ pc[t] \in {"a_load", "r_load"} /\ pc'[t] # pc[t] =>
                \/ pc'[t] = "save" /\ loc'[t].cfg # folders
                                   /\ UNCHANGED <<folders, image_cache, leaf_folders_cache>>
                \/ pc'[t] = "done" /\ UNCHANGED <<folders, image_cache, leaf_folders_cache>>
          /\ pc[t] \in Invalidating /\ pc'[t] # pc[t] => UNCHANGED folders]_vars

\* remove_folder has stored the list without the root and is about to clear a
\* snapshot
C35_Witness ==
    \E t \in Threads :
        /\ At(t, "i_images") /\ loc[t].op = "remove"
        /\ folders = <<>>
        /\ image_cache.images # None


\* C40: no path is in the favorites list and in the trash list at once.
C40_FavoritesTrashDisjoint ==
    Range(favorites) \cap Range(trash) = {}

====
